---- MODULE Spec2Model ----
(***************************************************************************)
(* Ingestion core of the legal-document chatbot backend:                   *)
(*   - WorkerUpdate.update_laws, the reconciliation of new units against   *)
(*     the Weaviate "Document" class (service/worker_update.py), on top of *)
(*     Weaviate.append / Weaviate.delete_law_number (weaviate_ann.py);     *)
(*   - text_preprocess, the Vietnamese text normalizer                     *)
(*     (data/shared/text_processing.py);                                   *)
(*   - extract_text_from_pdf, convert_pdf_to_images and                    *)
(*     perform_ocr_on_directory, the acquisition of the text, and          *)
(*     extract_laws_from_text and filter_laws_by_length, its segmentation  *)
(*     (data/pdf/pdf_processing.py), as process_file calls them            *)
(*     (service/file_processing_service.py).                               *)
(***************************************************************************)
EXTENDS Integers, Sequences, FiniteSets, TLC

----------------------------------------------------------------------------
(* Bounds of the model *)

\* update_laws calls one WorkerUpdate makes when the environment never fails
MaxCalls == 3
\* update_laws calls one WorkerUpdate makes when the environment may fail
MaxCallsFaulty == 2
\* failures the environment (embedding model, Weaviate server) may inject
MaxFaults == 1
\* characters of a text given to text_preprocess
MaxLen == 4
\* pieces an acquired text given to extract_laws_from_text is made of
MaxPieces == 5
\* the largest min_word given to filter_laws_by_length
MaxMinWord == 3
\* pages of a document
MaxPages == 3
\* scanned runs of one document on one day
MaxRuns == 2
\* requests that upload a file
MaxUploads == 3
\* characters of a word given to standardize_word_typing
MaxWordLen == 4
\* insert_objects calls made on the one WeaviateClient
MaxInserts == 3
\* objects of one insert_objects call
MaxBatch == 2
\* Weaviate(config) constructions and get_instance calls
MaxOps == 3
\* tokens the LLM calls of one agent run deliver
MaxTokens == 3
\* LLM calls of one agent run
MaxLlmCalls == 2
\* websockets the clients open, on both applications
MaxSockets == 3
\* calls of the OpenAI API within one generate
MaxAttempts == 3
\* choices of one API response (OpenAIGenerator.n)
MaxChoices == 3

----------------------------------------------------------------------------
(* Texts. A text is held in the state by its name; Chars gives its characters, *)
(* a sequence of one-character strings.                                      *)

Rep(c, n) == [i \in 1..n |-> c]

Chars ==
    [ \* a stored article of 20 characters
      A |-> Rep("a", 20),
      \* A with 3 characters substituted: the similarity to A is exactly 17/20
      B |-> Rep("b", 3) \o Rep("a", 17),
      \* A with 2 characters substituted: the similarity to A is 18/20
      C |-> Rep("b", 2) \o Rep("a", 18),
      \* whitespace only: content.strip() is empty
      Blank |-> <<" ">>,
      Empty |-> <<>> ]

\* the contents update_laws is given
Texts == {"A", "B", "C", "Blank"}
TextOf(chars) == CHOOSE t \in DOMAIN Chars : Chars[t] = chars

LawNumbers == {1, 2}
Workers == {"w1", "w2"}

Max(x, y) == IF x >= y THEN x ELSE y
Min(x, y) == IF x <= y THEN x ELSE y
Last(s) == s[Len(s)]

IsSpace(c) == c \in {" ", "\t", "\n"}

\* str.strip() drops leading and trailing whitespace
RECURSIVE LStrip(_)
LStrip(s) == IF s # <<>> /\ IsSpace(Head(s)) THEN LStrip(Tail(s)) ELSE s
RECURSIVE RStrip(_)
RStrip(s) ==
    IF s # <<>> /\ IsSpace(s[Len(s)]) THEN RStrip(SubSeq(s, 1, Len(s) - 1)) ELSE s
\* content.strip()
Strip(content) == TextOf(RStrip(LStrip(Chars[content])))

----------------------------------------------------------------------------
(* get_similarity: 1 - Levenshtein.distance / max(len) *)

\* one row of the edit-distance table: acc holds the cells 0..j-1 of the row
\* of character ch, prev is the row above
RECURSIVE LevRow(_, _, _, _, _)
LevRow(prev, ch, b, j, acc) ==
    IF j > Len(b) THEN acc
    ELSE LevRow(prev, ch, b, j + 1,
                Append(acc, Min(Min(prev[j + 1] + 1, acc[j] + 1),
                                prev[j] + (IF b[j] = ch THEN 0 ELSE 1))))

\* the rows of the table one after the other; the last cell of the last row is
\* the distance. Every row is as long as the one above: the test makes the row
\* a value before the next one is built on it.
RECURSIVE LevRows(_, _, _, _)
LevRows(a, b, i, prev) ==
    IF i > Len(a) THEN prev[Len(b) + 1]
    ELSE LET row == LevRow(prev, a[i], b, 1, <<prev[1] + 1>>)
         IN  IF Len(row) = Len(prev) THEN LevRows(a, b, i + 1, row) ELSE Len(row)

\* the length of the longest common prefix / suffix of a and b
CommonPrefix(a, b) ==
    LET ns == {n \in 0..Min(Len(a), Len(b)) : \A i \in 1..n : a[i] = b[i]}
    IN  CHOOSE n \in ns : \A k \in ns : k <= n
CommonSuffix(a, b) ==
    LET ns == {n \in 0..Min(Len(a), Len(b)) :
                  \A i \in 1..n : a[Len(a) + 1 - i] = b[Len(b) + 1 - i]}
    IN  CHOOSE n \in ns : \A k \in ns : k <= n

\* rapidfuzz Levenshtein.distance with unit weights: the common prefix and the
\* common suffix are dropped (they cost nothing), the table is filled for the rest
Levenshtein(a, b) ==
    LET p  == CommonPrefix(a, b)
        a1 == SubSeq(a, p + 1, Len(a))
        b1 == SubSeq(b, p + 1, Len(b))
        q  == CommonSuffix(a1, b1)
        a2 == SubSeq(a1, 1, Len(a1) - q)
        b2 == SubSeq(b1, 1, Len(b1) - q)
    IN  LevRows(a2, b2, 1, [j \in 1..(Len(b2) + 1) |-> j - 1])

\* the distance divided by the length of the new text alone
get_similarityByNew(old_content, new_content) ==
    LET m == Len(Chars[new_content])
    IN  <<m - Levenshtein(Chars[old_content], Chars[new_content]), m>>

\* the similarity as the fraction <<numerator, denominator>>; the code divides
\* by max(len), which is 0 only when both texts are empty
get_similarity(old_content, new_content) ==
    LET m == Max(Len(Chars[new_content]), Len(Chars[old_content]))
    IN  <<m - Levenshtein(Chars[old_content], Chars[new_content]), m>>

\* the threshold 0.85 of update_laws, as the fraction 17/20
Threshold == <<17, 20>>

\* similarity < 0.85
LowSimilarityStrict(sim) == sim[1] * Threshold[2] < Threshold[1] * sim[2]
\* similarity <= 0.85 (in floating point 1 - 3/20 <= 0.85 is true as well)
LowSimilarity(sim) == sim[1] * Threshold[2] <= Threshold[1] * sim[2]

----------------------------------------------------------------------------
(* State *)

VARIABLES
    objects,              \* the objects of the Weaviate class "Document"
    offset,               \* Weaviate.config["offset"], the next docid
    low_similarity_laws,  \* per WorkerUpdate: the list self.low_similarity_laws
    pc,                   \* per WorkerUpdate: where its update_laws call stands
    new_laws,             \* per call: the argument new_laws
    todo,                 \* per call: the keys new_laws.items() has yet to yield
    existing_laws,        \* per call: the snapshot get_existing_laws returned
    idx,                  \* per call: position in low_similarity_laws of the running loop
    quota,                \* per WorkerUpdate: update_laws calls it may still make
    budget,               \* failures the environment may still inject
    log,                  \* per call: the embed_and_save / delete_law_number calls made
    decision,             \* per call: the branch taken for each key compared
    before,               \* per call: the objects stored when the call began
    seen,                 \* per call: the values config["offset"] had since its last step
    failure,              \* per call: the message of the RuntimeError it raised, as the
                          \* messages wrapped one in the other, or <<>>
    raises,               \* per WorkerUpdate: the calls of update_laws that raised
    resubmitted,          \* per call: it was given the new_laws of the call before
                          \* it on the same WorkerUpdate, and that call returned
    raw,                  \* normalizer: the input text
    normalized,           \* normalizer: text_preprocess(raw)
    renormalized,         \* normalizer: text_preprocess(text_preprocess(raw))
    stage,                \* normalizer: "off", "input", "once" or "twice"
    extracted_text,       \* segmenter: the acquired text
    matches,              \* segmenter: what re.finditer yields, in order
    law_dict,             \* segmenter: the dict extract_laws_from_text returns
    min_word,             \* filter: the argument min_length
    filtered,             \* filter: the dict filter_laws_by_length returns
    seg,                  \* process_file and its caller: "off", "input", "extracted",
                          \* "filtered", "raised" or "ingested"
    store_ops,            \* the calls the endpoint made to the store, in order
    num_pages,            \* digital extraction: the number of pages of the document
    start_page,           \* digital extraction: the argument start_page
    end_page,             \* digital extraction: the argument end_page
    page_text,            \* digital extraction: the pages whose text is returned, in order
    acq,                  \* digital extraction: "off", "input" or "done"
    dir_exists,           \* scanned: whether the working directory exists
    images,               \* scanned: the files page_<n>.jpg of the directory, as a
                          \* function from n to the page of the document they show
    timer,                \* scanned: per run, the Timer it started: "none", "pending",
                          \* "deleting" (delete_directory has listed the files) or "fired"
    timer_files,          \* scanned: per run, the files its delete_directory listed
    runs_started,         \* scanned: the number of runs begun so far
    scan_pc,              \* scanned: where the last run stands
    window,               \* scanned: <<start_page, end_page>> of the last run
    to_save,              \* scanned: the rendered pages the run has yet to save
    paths,                \* scanned: the file numbers glob returned to the run
    scan_text,            \* scanned: the pages whose OCR text the run returned, in order
    ocr_results,          \* scanned: the text perform_ocr_on_image returned for each image
    storage,              \* uploads: the files of BASE_STORAGE, file name to bytes
    uploads,              \* uploads: the number of requests served
    request,              \* uploads: the last request, its file name, bytes and file_type
    processed,            \* uploads: the bytes the last request acquired its text from
    mode,                 \* uploads: the acquisition of the last request, "pdf" or "scanned"
    given_word,           \* word typing: the argument of standardize_word_typing
    typed,                \* word typing: what standardize_word_typing returned
    typing,               \* word typing: "off", "input" or "done"
    client_offset,        \* WeaviateClient.offset
    collection,           \* the objects of "LegalDocumentCollection", by doc_id
    batches,              \* the insert_objects calls made, in order
    instance,             \* Weaviate._instance
    next_id,              \* the identity the next object made by __new__ gets
    history,              \* the constructions and get_instance calls made, in order
    self_content,         \* AsyncCallbackHandler.content, a sequence of characters
    final_answer,         \* AsyncCallbackHandler.final_answer
    queue,                \* AsyncCallbackHandler.queue: the tokens put and not yet taken
    done,                 \* AsyncCallbackHandler.done is set
    output,               \* the characters the running LLM call has delivered
    agent,                \* run_call: "idle", "running" or "ended"
    llm_calls,            \* the LLM calls of the run that have ended
    tokens_sent,          \* the tokens the run has delivered
    gen,                  \* create_gen: "idle", "iterating", "awaiting" or "finished"
    sockets,              \* the websockets opened, in order: application, session,
                          \* open or closed, its endpoint handler, and the timeout
                          \* task that closed it (0: none)
    active_connections,   \* streaming.py: ConnectionManager.active_connections
    timers,               \* streaming.py: ConnectionManager.timers
    pending,              \* streaming.py: the timeout tasks still sleeping, each
                          \* named by the websocket it was started for
    hub_connections,      \* socket/main.py: ConnectionManager.active_connections
    closed_sends,         \* the websockets sent on after they were closed
    wait_till_success,    \* hyde.py: OpenAIGenerator.wait_till_success
    api_calls,            \* hyde.py: what each openai.ChatCompletion.create of the
                          \* generate under way did, in order
    generated             \* hyde.py: how generate stands: running, returned or raised

workerVars == <<low_similarity_laws, pc, new_laws, todo, existing_laws, idx,
                quota, log, decision, before, seen, failure, raises, resubmitted>>
storeVars == <<objects, offset, budget>>
normVars == <<raw, normalized, renormalized, stage, given_word, typed, typing>>
segVars == <<extracted_text, matches, law_dict, min_word, filtered, seg, store_ops>>
\* what the calls of update_laws leave alone
pageVars == <<num_pages, start_page, end_page, page_text, acq>>
scanVars == <<dir_exists, images, timer, timer_files, runs_started, scan_pc, window,
              to_save, paths, scan_text, ocr_results>>
uploadVars == <<storage, uploads, request, processed, mode>>
acqVars == <<pageVars, scanVars, uploadVars>>
restVars == <<normVars, segVars, acqVars>>
clientVars == <<client_offset, collection, batches>>
singletonVars == <<instance, next_id, history>>
chatVars == <<self_content, final_answer, queue, done, output, agent, llm_calls, tokens_sent, gen>>
socketVars == <<sockets, active_connections, timers, pending, hub_connections, closed_sends>>
hydeVars == <<wait_till_success, api_calls, generated>>
appVars == <<chatVars, socketVars, hydeVars>>
connVars == <<clientVars, singletonVars, appVars>>
vars == <<objects, offset, low_similarity_laws, pc, new_laws, todo, existing_laws,
          idx, quota, budget, log, decision, before, seen, failure, raises, resubmitted,
          raw, normalized, renormalized, stage,
          extracted_text, matches, law_dict, min_word, filtered, seg, store_ops,
          num_pages, start_page, end_page, page_text, acq,
          dir_exists, images, timer, timer_files, runs_started, scan_pc, window,
          to_save, paths, scan_text, ocr_results,
          storage, uploads, request, processed, mode, given_word, typed, typing,
          client_offset, collection, batches, instance, next_id, history,
          self_content, final_answer, queue, done, output, agent, llm_calls, tokens_sent, gen,
          sockets, active_connections, timers, pending, hub_connections, closed_sends,
          wait_till_success, api_calls, generated>>

----------------------------------------------------------------------------
(* Weaviate (database/weaviate_txtai/ann/weaviate_ann.py) *)

ObjectsUnder(objs, law_number) == {o \in objs : o.law_number = law_number}

\* an append that keeps one object per law_number
appendKeyed(st, law_number, text, out) ==
    CASE out = "ok" ->
           [objects |-> {o \in st.objects : o.law_number # law_number}
                          \cup {[docid |-> st.read[1], law_number |-> law_number,
                                 text |-> text]},
            offset |-> st.read[2] + 1]
      [] out = "add_error" -> [objects |-> st.objects, offset |-> st.offset]
      [] OTHER -> [objects |-> st.objects, offset |-> st.read[2] + 1]

\* an append that leaves config["offset"] as it found it
appendFixedOffset(st, law_number, text, out) ==
    CASE out = "ok" ->
           [objects |-> {o \in st.objects : o.docid # st.read[1]}
                          \cup {[docid |-> st.read[1], law_number |-> law_number,
                                 text |-> text]},
            offset |-> st.offset]
      [] OTHER -> [objects |-> st.objects, offset |-> st.offset]

\* Weaviate.append for one (law_number, embedding, text) tuple, on the store
\* st = [objects, offset, read]. read[1] is the value of config["offset"] read for
\* the docid and the uuid, read[2] the value read by `config["offset"] += 1`; both
\* are st.offset unless another thread's append ran in between (Weaviate is a
\* singleton and append takes no lock). The object's uuid is
\* generate_uuid5(str(docid)), so an object with the same docid is overwritten.
\*   "ok"          the object is buffered, the offset incremented, the batch sent
\*   "add_error"   batch.add_data_object raises: logged, `continue`
\*   "flush_error" the batch is not sent when the `with` block exits: the
\*                 exception leaves append
append(st, law_number, text, out) ==
    CASE out = "ok" ->
           [objects |-> {o \in st.objects : o.docid # st.read[1]}
                          \cup {[docid |-> st.read[1], law_number |-> law_number,
                                 text |-> text]},
            offset |-> st.read[2] + 1]
      [] out = "add_error" -> [objects |-> st.objects, offset |-> st.offset]
      [] OTHER -> [objects |-> st.objects, offset |-> st.read[2] + 1]

\* Weaviate.delete_law_number on the set of objects:
\*   "ok"    every object whose law_number matches is deleted
\*   "error" the query or one data_object.delete raises: the objects in
\*           `removed` were deleted before it; the exception is logged only
\*   "index_missing" check_index_exists raises before anything is done
delete_law_number(objs, law_number, out, removed) ==
    CASE out = "ok" -> objs \ ObjectsUnder(objs, law_number)
      [] out = "error" -> objs \ removed
      [] OTHER -> objs

\* what a failing delete_law_number may have deleted: any part of the matching
\* objects but not all of them
PartlyRemoved(objs, law_number) ==
    LET under == ObjectsUnder(objs, law_number)
    IN  IF under = {} THEN {{}} ELSE (SUBSET under) \ {under}

----------------------------------------------------------------------------
(* WorkerUpdate (service/worker_update.py) *)

\* get_existing_laws: the dicts the loop over the query result can build. An
\* object whose law_number or text is falsy is left out; of several objects with
\* one law_number the last one returned wins, and the order is Weaviate's.
get_existing_laws(objs) ==
    LET kept == {o \in objs : o.law_number # 0 /\ o.text # "Empty"}
        keys == {o.law_number : o \in kept}
    IN  {e \in [keys -> {o.text : o \in kept}] :
            \A k \in keys : \E o \in kept : o.law_number = k /\ o.text = e[k]}

\* an entry of the log of a call; docid is -1 where no docid is assigned
Entry(op, law_number, out, phase, docid) ==
    [op |-> op, law_number |-> law_number, out |-> out, phase |-> phase, docid |-> docid]

\* A frame is what one step of update_laws reads and writes:
\*   [objects, offset, low, log, decision, raised], before for the record, and
\*   stale: <<>>, or the values <<read[1], read[2]>> the step's append reads for
\*   config["offset"] when another thread's append overlaps it

\* embed_and_save with a compensating action: when it raises, the objects the
\* deletions of the call removed are written back
embed_and_saveRestoring(f, law_number, content, out, phase) ==
    LET read == IF f.stale = <<>> THEN <<f.offset, f.offset>> ELSE f.stale
        st == append([objects |-> f.objects, offset |-> f.offset, read |-> read],
                     law_number, Strip(content), out)
        docid == IF out = "ok" THEN read[1] ELSE -1
        g  == [f EXCEPT !.log = Append(f.log, Entry("insert", law_number, out, phase, docid)),
                        !.stale = <<>>]
        deleted == {f.log[i].law_number : i \in {j \in 1..Len(f.log) : f.log[j].op = "delete"}}
        restored == {o \in f.before : o.law_number \in deleted}
    IN  IF out \in {"blank", "embed_error"}
        THEN [g EXCEPT !.raised = TRUE, !.objects = f.objects \cup restored]
        ELSE [g EXCEPT !.objects = st.objects, !.offset = st.offset,
                       !.raised = (out = "flush_error")]

\* embed_and_save(law_number, content):
\*   "blank"       content.strip() is empty: ValueError
\*   "embed_error" self.embeddings.transform raises
\*   otherwise     Weaviate.append is called with content.strip()
\* every exception is re-raised as RuntimeError
embed_and_save(f, law_number, content, out, phase) ==
    LET read == IF f.stale = <<>> THEN <<f.offset, f.offset>> ELSE f.stale
        st == append([objects |-> f.objects, offset |-> f.offset, read |-> read],
                     law_number, Strip(content), out)
        docid == IF out = "ok" THEN read[1] ELSE -1
        g  == [f EXCEPT !.log = Append(f.log, Entry("insert", law_number, out, phase, docid)),
                        !.stale = <<>>]
    IN  IF out \in {"blank", "embed_error"}
        THEN [g EXCEPT !.raised = TRUE]
        ELSE [g EXCEPT !.objects = st.objects, !.offset = st.offset,
                       !.raised = (out = "flush_error")]

\* the outcomes embed_and_save can have for this content
EmbedOutcomes(content, faults) ==
    IF Strip(content) = "Empty" THEN {"blank"}
    ELSE {"ok"} \cup (IF faults THEN {"embed_error", "add_error", "flush_error"} ELSE {})

\* the branch update_laws takes for one (law_number, new_content) item
Decide(existing, law_number, new_content) ==
    IF law_number \in DOMAIN existing
    THEN IF LowSimilarity(get_similarity(existing[law_number], new_content))
         THEN "Update" ELSE "Skip"
    ELSE "Insert"

\* the loop body with the list replaced instead of appended to
CompareStepReplacing(f, new, existing, law_number, out) ==
    LET d == Decide(existing, law_number, new[law_number])
        g == [f EXCEPT !.decision = (law_number :> d) @@ f.decision]
    IN  CASE d = "Update" -> [g EXCEPT !.low = <<law_number>>]
          [] d = "Skip" -> g
          [] OTHER -> embed_and_save(g, law_number, new[law_number], out, "compare")

\* one iteration of the loop `for law_number, new_content in new_laws.items()`
CompareStep(f, new, existing, law_number, out) ==
    LET d == Decide(existing, law_number, new[law_number])
        g == [f EXCEPT !.decision = (law_number :> d) @@ f.decision]
    IN  CASE d = "Update" -> [g EXCEPT !.low = Append(f.low, law_number)]
          [] d = "Skip" -> g
          [] OTHER -> embed_and_save(g, law_number, new[law_number], out, "compare")

\* one iteration of the loop of delete_low_similarity_laws
DeleteStep(f, law_number, out, removed) ==
    LET g == [f EXCEPT !.log = Append(f.log, Entry("delete", law_number, out, "delete", -1))]
    IN  [g EXCEPT !.objects = delete_law_number(f.objects, law_number, out, removed),
                  !.raised = (out = "index_missing")]

\* one iteration of `for law_number in self.low_similarity_laws:
\*                       self.embed_and_save(law_number, new_laws[law_number])`
ReEmbedStep(f, new, law_number, out) ==
    IF law_number \notin DOMAIN new
    THEN [f EXCEPT !.raised = TRUE,
                   !.log = Append(f.log, Entry("lookup", law_number, "key_error", "reembed", -1))]
    ELSE embed_and_save(f, law_number, new[law_number], out, "reembed")

----------------------------------------------------------------------------
(* text_preprocess (data/shared/text_processing.py). A text is a sequence of  *)
(* characters; the Vietnamese letters are written in ASCII:                   *)
(*   "a"  a          "a1" a with grave      "a2" a with acute                 *)
(*   "ee" e with circumflex, "ee1" the same with grave, "ee2" with acute      *)
(*   "i", "u" with "i1", "u1" (grave) and "i2", "u2" (acute)                  *)
(*   "ow" o with horn, "ow1" the same with grave, "ow2" with acute            *)
(*   "DD" capital D with stroke                                               *)
(*   "'"  U+0301, the combining acute accent                                  *)

\* vowels_to_ids for the vowels of the model: <<row, column>> in vowels_table
vowels_to_ids ==
    [a |-> <<0, 0>>, a1 |-> <<0, 1>>, a2 |-> <<0, 2>>,
     ee |-> <<4, 0>>, ee1 |-> <<4, 1>>, ee2 |-> <<4, 2>>,
     i |-> <<5, 0>>, i1 |-> <<5, 1>>, i2 |-> <<5, 2>>,
     ow |-> <<8, 0>>, ow1 |-> <<8, 1>>, ow2 |-> <<8, 2>>,
     u |-> <<9, 0>>, u1 |-> <<9, 1>>, u2 |-> <<9, 2>>]

vowels_table(row, col) == CHOOSE v \in DOMAIN vowels_to_ids : vowels_to_ids[v] = <<row, col>>

\* the characters a text given to text_preprocess is made of
Alphabet == {"a", "a1", "a2", "ee", "ee2", "b", ".", " ", "<", ">", "'"}

\* [^\s\w...] of remove_unnecessary_characters: what is neither whitespace, a
\* word character (the regex module counts a combining mark as one) nor a
\* Vietnamese letter
Unnecessary(c) == c \in {".", "<", ">"}

\* re.sub(r"<[^>]*>", "", text): from a "<" to the first ">" after it
RECURSIVE remove_html_tags(_)
remove_html_tags(text) ==
    IF text = <<>> THEN <<>>
    ELSE LET closing == {i \in 2..Len(text) : text[i] = ">"}
         IN  IF Head(text) = "<" /\ closing # {}
             THEN LET first == CHOOSE i \in closing : \A j \in closing : i <= j
                  IN  remove_html_tags(SubSeq(text, first + 1, Len(text)))
             ELSE <<Head(text)>> \o remove_html_tags(Tail(text))

\* conversion_dict for the letters of the model: letter + combining accent
conversion_dict == [a |-> "a2", ee |-> "ee2"]

RECURSIVE convert_unicode(_)
convert_unicode(text) ==
    IF text = <<>> THEN <<>>
    ELSE IF Len(text) >= 2 /\ text[1] \in DOMAIN conversion_dict /\ text[2] = "'"
         THEN <<conversion_dict[text[1]]>> \o convert_unicode(SubSeq(text, 3, Len(text)))
         ELSE <<Head(text)>> \o convert_unicode(Tail(text))

\* the tone mark on the second vowel whatever the vowels are
TonePositionSecond(chars, vowel_positions) == vowel_positions[2]

\* where the tone mark goes when the word has two vowels or more: the first vowel
\* of row 4 or 8, else the second vowel
TonePosition(chars, vowel_positions) ==
    LET prior == {i \in 1..Len(vowel_positions) :
                     vowels_to_ids[chars[vowel_positions[i]]][1] \in {4, 8}}
    IN  IF prior # {}
        THEN vowel_positions[CHOOSE i \in prior : \A j \in prior : i <= j]
        ELSE vowel_positions[2]

standardize_word_typing(word) ==
    LET IsVowel(i) == word[i] \in DOMAIN vowels_to_ids
        vowel_positions == SelectSeq([i \in 1..Len(word) |-> i], IsVowel)
        marked == {i \in 1..Len(word) : IsVowel(i) /\ vowels_to_ids[word[i]][2] # 0}
        \* the mark of the last marked vowel is the one remembered
        tone_mark == IF marked = {} THEN 0
                     ELSE vowels_to_ids[word[CHOOSE i \in marked : \A j \in marked : j <= i]][2]
        chars == [i \in 1..Len(word) |->
                     IF IsVowel(i) THEN vowels_table(vowels_to_ids[word[i]][1], 0)
                     ELSE word[i]]
        Marked(pos) ==
            [chars EXCEPT ![pos] = vowels_table(vowels_to_ids[chars[pos]][1], tone_mark)]
    IN  IF Len(vowel_positions) = 0 THEN chars
        ELSE IF Len(vowel_positions) = 1 THEN Marked(vowel_positions[1])
        ELSE Marked(TonePosition(chars, vowel_positions))

\* str.split(): the maximal runs of non-whitespace characters
RECURSIVE Split(_, _)
Split(text, word) ==
    IF text = <<>> THEN (IF word = <<>> THEN <<>> ELSE <<word>>)
    ELSE IF IsSpace(Head(text))
         THEN (IF word = <<>> THEN <<>> ELSE <<word>>) \o Split(Tail(text), <<>>)
         ELSE Split(Tail(text), Append(word, Head(text)))

\* " ".join(words)
RECURSIVE Join(_)
Join(words) ==
    IF words = <<>> THEN <<>>
    ELSE IF Len(words) = 1 THEN words[1]
    ELSE words[1] \o <<" ">> \o Join(Tail(words))

standardize_sentence_typing(text) ==
    LET words == Split(text, <<>>)
    IN  Join([i \in 1..Len(words) |-> standardize_word_typing(words[i])])

\* every unnecessary character becomes a space, runs of whitespace become one
\* space, the ends are stripped
remove_unnecessary_characters(text) ==
    Join(Split([i \in 1..Len(text) |-> IF Unnecessary(text[i]) THEN " " ELSE text[i]], <<>>))

text_preprocess(text) ==
    remove_unnecessary_characters(
        standardize_sentence_typing(convert_unicode(remove_html_tags(text))))

----------------------------------------------------------------------------
(* extract_laws_from_text and filter_laws_by_length (data/pdf/pdf_processing.py). *)
(* The acquired text is a sequence of characters.                              *)

\* the word of the marker: capital D with stroke, i, e with circumflex and grave, u
Dieu == <<"DD", "i", "ee1", "u">>

IsDigit(c) == c \in {"0", "1", "2", "3", "4", "5", "6", "7", "8", "9"}

\* the end of the run of digits that starts at position i (i - 1 when there is none)
RECURSIVE DigitsEnd(_, _)
DigitsEnd(t, i) ==
    IF i <= Len(t) /\ IsDigit(t[i]) THEN DigitsEnd(t, i + 1) ELSE i - 1

\* the marker pattern, r"<Dieu> \d+\.", matches at position i
MarkerAt(t, i) ==
    /\ i + Len(Dieu) + 2 <= Len(t)
    /\ SubSeq(t, i, i + Len(Dieu) - 1) = Dieu
    /\ t[i + Len(Dieu)] = " "
    /\ DigitsEnd(t, i + Len(Dieu) + 1) >= i + Len(Dieu) + 1
    /\ DigitsEnd(t, i + Len(Dieu) + 1) + 1 <= Len(t)
    /\ t[DigitsEnd(t, i + Len(Dieu) + 1) + 1] = "."

\* the position after the marker at i
MarkerEnd(t, i) == DigitsEnd(t, i + Len(Dieu) + 1) + 2

\* the digits of the marker at i
MarkerDigits(t, i) == SubSeq(t, i + Len(Dieu) + 1, DigitsEnd(t, i + Len(Dieu) + 1))

\* the first position from i on where the look-ahead (?=(<Dieu> \d+\.|\Z)) holds
RECURSIVE LookAhead(_, _)
LookAhead(t, i) ==
    IF i > Len(t) \/ MarkerAt(t, i) THEN i ELSE LookAhead(t, i + 1)

\* int() of a run of decimal digits
RECURSIVE ParseInt(_)
ParseInt(digits) ==
    IF digits = <<>> THEN 0
    ELSE LET d == CHOOSE n \in 0..9 : ToString(n) = digits[Len(digits)]
         IN  10 * ParseInt(SubSeq(digits, 1, Len(digits) - 1)) + d

\* the span that ends where the text does, as a greedy .* would match it
SpanEndGreedy(t, i) == Len(t) + 1

\* the end (exclusive) of the match that starts at the marker at i: .*? takes as
\* few characters as the look-ahead allows
SpanEnd(t, i) == LookAhead(t, MarkerEnd(t, i))

\* re.finditer(pattern, text, flags=re.DOTALL) from position i on, each match with
\* the law_number and the content the loop makes of it
RECURSIVE finditer(_, _)
finditer(t, i) ==
    IF i > Len(t) THEN <<>>
    ELSE IF ~MarkerAt(t, i) THEN finditer(t, i + 1)
    ELSE LET e == SpanEnd(t, i)
         IN  <<[start |-> i, end |-> e,
                law_number |-> ParseInt(MarkerDigits(t, i)),
                content |-> RStrip(LStrip(SubSeq(t, i, e - 1)))]>>
             \o finditer(t, e)

\* a dict in which the first occurrence of a law_number stays
RECURSIVE LawDictFirst(_, _)
LawDictFirst(ms, n) ==
    IF n = 0 THEN <<>>
    ELSE LawDictFirst(ms, n - 1) @@ (ms[n].law_number :> ms[n].content)

\* law_dict[law_number] = content for the first n matches, in order
RECURSIVE LawDict(_, _)
LawDict(ms, n) ==
    IF n = 0 THEN <<>>
    ELSE (ms[n].law_number :> ms[n].content) @@ LawDict(ms, n - 1)

extract_laws_from_text(t) == LawDict(finditer(t, 1), Len(finditer(t, 1)))

\* len(text.split())
count_words_in_text(t) == Len(Split(t, <<>>))

\* the keep condition of filter_laws_by_length decided on the normalized text
KeepNormalized(content, min_length) ==
    count_words_in_text(text_preprocess(content)) >= min_length

\* the condition of the dict comprehension of filter_laws_by_length
Keep(content, min_length) == count_words_in_text(content) >= min_length

filter_laws_by_length(laws, min_length) ==
    LET kept == {number \in DOMAIN laws : Keep(laws[number], min_length)}
    IN  [number \in kept |-> text_preprocess(laws[number])]

----------------------------------------------------------------------------
(* extract_text_from_pdf (data/pdf/pdf_processing.py). A document is its pages, *)
(* numbered from 1; the text of pages is written as the sequence of their    *)
(* numbers.                                                                   *)

\* Python's None, where a page number is expected
None == -1

\* bool(x) of a page number or None
Truthy(x) == x # None /\ x # 0

\* a window for either endpoint
WindowGivenEither(start, end) == Truthy(start) \/ Truthy(end)

\* `start_page and end_page`
WindowGiven(start, end) == Truthy(start) /\ Truthy(end)

\* range(start, end)
range(start, end) == start..(end - 1)

\* the concatenated text of the pages in `wanted`, in the order of the document
PagesText(pages, wanted) ==
    SelectSeq([k \in 1..pages |-> k], LAMBDA k : k \in wanted)

\* pdfminer's extract_text(pdf_file, page_numbers=...): page_numbers holds
\* zero-indexed page numbers; a page is skipped when page_numbers is truthy and
\* does not hold its index, so None and an empty range select every page.
\* given = FALSE stands for page_numbers = None.
pdfminer_extract_text(pages, given, page_numbers) ==
    IF given /\ page_numbers # {}
    THEN PagesText(pages, {k \in 1..pages : (k - 1) \in page_numbers})
    ELSE PagesText(pages, 1..pages)

extract_text_from_pdf(pages, start, end) ==
    IF WindowGiven(start, end)
    THEN pdfminer_extract_text(pages, TRUE, range(start, end))
    ELSE pdfminer_extract_text(pages, FALSE, {})

----------------------------------------------------------------------------
(* convert_pdf_to_images and perform_ocr_on_directory (data/pdf/pdf_processing.py) *)

\* pdf2image's convert_from_path(pdf_file, first_page=..., last_page=...): the
\* pages rendered, in order. A first_page that is None or below 1 stands for 1, a
\* last_page that is None or beyond the document for its last page, and nothing
\* is rendered when first_page > last_page.
convert_from_path(pages, first_page, last_page) ==
    LET first == IF first_page = None \/ first_page < 1 THEN 1 ELSE first_page
        last == IF last_page = None \/ last_page > pages THEN pages ELSE last_page
    IN  [k \in 1..(last - first + 1) |-> first + k - 1]

\* enumerate(pages, start=start_page): the pairs <<idx, page>>
enumerate(rendered, start) == [k \in 1..Len(rendered) |-> <<start + k - 1, rendered[k]>>]

\* sorted(..., key = the number in the file name)
RECURSIVE sorted(_)
sorted(numbers) ==
    IF numbers = {} THEN <<>>
    ELSE LET least == CHOOSE n \in numbers : \A m \in numbers : n <= m
         IN  <<least>> \o sorted(numbers \ {least})

\* perform_ocr_on_image: the text pytesseract reads on the image of a page, one
\* character that names the page, or nothing when the engine returns no text
perform_ocr_on_image(page, blank) == IF page \in blank THEN <<>> ELSE <<ToString(page)>>

\* "\n".join(ocr_results)
RECURSIVE JoinLines(_)
JoinLines(results) ==
    IF results = <<>> THEN <<>>
    ELSE IF Len(results) = 1 THEN results[1]
    ELSE results[1] \o <<"\n">> \o JoinLines(Tail(results))

\* the files of a directory without those in `gone`
Without(files, gone) == [n \in (DOMAIN files) \ gone |-> files[n]]

\* a Timer that waits for the run using the directory to end
TimerExpiresWhenIdle(q, tm, pos) == tm[q] = "pending" /\ pos \in {"idle", "returned", "raised"}

\* Timer(timeout_minutes * 60, delete_directory).start(): the thread calls
\* delete_directory when the time is over, whatever the runs are doing; nothing
\* holds the Timer, so nothing cancels it
TimerExpires(q, tm, pos) == tm[q] = "pending"

----------------------------------------------------------------------------
(* save_uploaded_file and the choice of the acquisition in process_file        *)
(* (service/file_processing_service.py), is_pdf_scanned (pdf_processing.py)    *)

\* the names under which files are uploaded
Filenames == {"law.pdf", "decree.pdf"}

\* the documents uploaded, by their bytes: two versions of a born-digital
\* document, a scan whose text layer is empty and one whose text layer holds
\* white space only
Payloads == {"digital_v1", "digital_v2", "scan", "scan_ff"}

\* the embedded text layer of a document, what pdfminer_extract_text returns
TextLayer(payload) ==
    CASE payload = "digital_v1" -> <<"x">>
      [] payload = "digital_v2" -> <<"y">>
      [] payload = "scan_ff" -> <<"\n">>
      [] OTHER -> <<>>

\* is_pdf_scanned: not bool(text.strip())
is_pdf_scanned(payload) == RStrip(LStrip(TextLayer(payload))) = <<>>

\* file_type of the endpoints: FileType.PDF when the request gives none
FileTypeArgs == {"absent", "pdf", "scanned"}
FileTypeOf(arg) == IF arg = "absent" THEN "pdf" ELSE arg

\* save_uploaded_file on the files of BASE_STORAGE: a file of that name is left
\* as it is, and the upload is written only when there is none
save_uploaded_file(files, filename, payload) ==
    IF filename \in DOMAIN files THEN files ELSE (filename :> payload) @@ files

----------------------------------------------------------------------------
(* The calls of update_laws, one action per step *)

\* the dicts update_laws may be given, and the orders their items() may have
NewLaws == UNION {[D -> Texts] : D \in SUBSET LawNumbers}
Orders(D) ==
    {s \in [1..Cardinality(D) -> D] : \A i, j \in 1..Cardinality(D) : s[i] = s[j] => i = j}

Frame(w) ==
    [objects |-> objects, offset |-> offset, low |-> low_similarity_laws[w],
     log |-> log[w], decision |-> decision[w], raised |-> FALSE, before |-> before[w],
     stale |-> <<>>]

\* a call between its first and its last step
Running(w) == pc[w] \in {"get_existing", "compare", "delete", "reembed"}

\* what the append of a step of w may read for config["offset"], at the line that
\* makes the docid and at the line that increments: two of the values the offset
\* had since the previous step of w, the second not older than the first
Reads(w) ==
    LET s == seen[w] \o <<offset>>
    IN  {<<s[m[1]], s[m[2]]>> : m \in {n \in (1..Len(s)) \X (1..Len(s)) : n[1] <= n[2]}}

\* after a step of w that leaves the offset at new_offset: w has seen nothing
\* yet, the other running calls may still hold the offset the step replaced
Seen(w, new_offset) ==
    [v \in Workers |->
        IF v = w THEN <<>>
        ELSE IF Running(v) /\ new_offset # offset THEN Append(seen[v], offset)
        ELSE seen[v]]

\* where update_laws goes on after a step that did not raise: from the position
\* p with `rest` left of new_laws.items() and the index i in the list `low`
NextPositionSwapped(p, rest, i, low) ==
    CASE p = "compare" ->
           IF rest # <<>> THEN <<"compare", 1>>
           ELSE IF low # <<>> THEN <<"reembed", 1>> ELSE <<"returned", 1>>
      [] p = "reembed" ->
           IF i < Len(low) THEN <<"reembed", i + 1>> ELSE <<"delete", 1>>
      [] OTHER ->
           IF i < Len(low) THEN <<"delete", i + 1>> ELSE <<"returned", 1>>

NextPosition(p, rest, i, low) ==
    CASE p = "compare" ->
           IF rest # <<>> THEN <<"compare", 1>>
           ELSE IF low # <<>> THEN <<"delete", 1>> ELSE <<"returned", 1>>
      [] p = "delete" ->
           IF i < Len(low) THEN <<"delete", i + 1>> ELSE <<"reembed", 1>>
      [] OTHER ->
           IF i < Len(low) THEN <<"reembed", i + 1>> ELSE <<"returned", 1>>

\* the step of w leaves the frame f and, unless it raised, the position pos
\* a RuntimeError of update_laws that does not say what failed
FailureBare(entry) == <<"Failed to update laws">>

\* the RuntimeError update_laws raises for the call that failed: each handler
\* raises RuntimeError(f"<its message>: {e}"), so the message holds the messages
\* of the handlers the exception went through and then the cause
Failure(entry) ==
    CASE entry.op = "insert" ->
           <<"Failed to update laws", "Failed to embed and save law", entry.out>>
      [] entry.op = "delete" ->
           <<"Failed to update laws", "Failed to delete laws with low similarity", entry.out>>
      [] entry.op = "read" ->
           <<"Failed to update laws", "Failed to retrieve existing laws", entry.out>>
      [] OTHER -> <<"Failed to update laws", entry.out>>

Install(w, f, pos) ==
    /\ objects' = f.objects
    /\ offset' = f.offset
    /\ low_similarity_laws' = [low_similarity_laws EXCEPT ![w] = f.low]
    /\ log' = [log EXCEPT ![w] = f.log]
    /\ decision' = [decision EXCEPT ![w] = f.decision]
    /\ pc' = [pc EXCEPT ![w] = IF f.raised THEN "raised" ELSE pos[1]]
    /\ failure' = [failure EXCEPT ![w] = IF f.raised THEN Failure(Last(f.log)) ELSE <<>>]
    /\ raises' = [raises EXCEPT ![w] = IF f.raised THEN raises[w] + 1 ELSE raises[w]]
    /\ idx' = [idx EXCEPT ![w] = pos[2]]
    /\ seen' = Seen(w, f.offset)

\* an injected failure uses up the budget
Spend(out) ==
    budget' = IF out \in {"ok", "blank", "key_error"} THEN budget ELSE budget - 1

\* update_laws(new_laws) is called on WorkerUpdate w
update_laws(w) ==
    /\ pc[w] \in {"idle", "returned", "raised"}
    /\ quota[w] > 0
    /\ \E new \in NewLaws : \E order \in Orders(DOMAIN new) :
          /\ new_laws' = [new_laws EXCEPT ![w] = new]
          /\ resubmitted' = [resubmitted EXCEPT ![w] =
                                pc[w] = "returned" /\ new = new_laws[w]]
          /\ todo' = [todo EXCEPT ![w] = order]
    /\ quota' = [quota EXCEPT ![w] = quota[w] - 1]
    /\ pc' = [pc EXCEPT ![w] = "get_existing"]
    /\ existing_laws' = [existing_laws EXCEPT ![w] = <<>>]
    /\ idx' = [idx EXCEPT ![w] = 1]
    /\ log' = [log EXCEPT ![w] = <<>>]
    /\ decision' = [decision EXCEPT ![w] = <<>>]
    /\ before' = [before EXCEPT ![w] = objects]
    /\ failure' = [failure EXCEPT ![w] = <<>>]
    /\ seen' = Seen(w, offset)
    /\ UNCHANGED <<objects, offset, budget, low_similarity_laws, raises, restVars, connVars>>

\* existing_laws = self.get_existing_laws(); a failing query raises RuntimeError
GetExistingLaws(w) ==
    /\ pc[w] = "get_existing"
    /\ \/ /\ \E e \in get_existing_laws(objects) :
                existing_laws' = [existing_laws EXCEPT ![w] = e]
          /\ pc' = [pc EXCEPT ![w] =
                      NextPosition("compare", todo[w], 1, low_similarity_laws[w])[1]]
          /\ UNCHANGED <<budget, failure, raises>>
       \/ /\ budget > 0
          /\ budget' = budget - 1
          /\ pc' = [pc EXCEPT ![w] = "raised"]
          /\ failure' = [failure EXCEPT ![w] =
                           Failure(Entry("read", 0, "query_error", "get_existing", -1))]
          /\ raises' = [raises EXCEPT ![w] = raises[w] + 1]
          /\ UNCHANGED existing_laws
    /\ seen' = Seen(w, offset)
    /\ UNCHANGED <<objects, offset, low_similarity_laws, new_laws, todo, idx, quota,
                   log, decision, before, resubmitted, restVars, connVars>>

\* the comparison loop, one item of new_laws.items()
CompareLaws(w) ==
    /\ pc[w] = "compare"
    /\ LET law_number == Head(todo[w])
           outs == IF law_number \in DOMAIN existing_laws[w] THEN {"ok"}
                   ELSE EmbedOutcomes(new_laws[w][law_number], budget > 0)
       IN  \E out \in outs : \E read \in Reads(w) :
             LET f == CompareStep([Frame(w) EXCEPT !.stale = read],
                                  new_laws[w], existing_laws[w], law_number, out)
             IN  /\ Install(w, f, NextPosition("compare", Tail(todo[w]), 1, f.low))
                 /\ Spend(out)
    /\ todo' = [todo EXCEPT ![w] = Tail(todo[w])]
    /\ UNCHANGED <<new_laws, existing_laws, quota, before, resubmitted, restVars, connVars>>

\* delete_low_similarity_laws, one law_number of self.low_similarity_laws
DeleteLowSimilarityLaws(w) ==
    /\ pc[w] = "delete"
    /\ LET law_number == low_similarity_laws[w][idx[w]]
       IN  \E out \in {"ok"} \cup (IF budget > 0 THEN {"error", "index_missing"} ELSE {}) :
           \E removed \in IF out = "error" THEN PartlyRemoved(objects, law_number) ELSE {{}} :
             /\ Install(w, DeleteStep(Frame(w), law_number, out, removed),
                        NextPosition("delete", todo[w], idx[w], low_similarity_laws[w]))
             /\ Spend(out)
    /\ UNCHANGED <<new_laws, todo, existing_laws, quota, before, resubmitted, restVars, connVars>>

\* the re-embedding loop, one law_number of self.low_similarity_laws
ReEmbedLaws(w) ==
    /\ pc[w] = "reembed"
    /\ LET law_number == low_similarity_laws[w][idx[w]]
           outs == IF law_number \in DOMAIN new_laws[w]
                   THEN EmbedOutcomes(new_laws[w][law_number], budget > 0)
                   ELSE {"key_error"}
       IN  \E out \in outs : \E read \in Reads(w) :
             /\ Install(w, ReEmbedStep([Frame(w) EXCEPT !.stale = read],
                                       new_laws[w], law_number, out),
                        NextPosition("reembed", todo[w], idx[w], low_similarity_laws[w]))
             /\ Spend(out)
    /\ UNCHANGED <<new_laws, todo, existing_laws, quota, before, resubmitted, restVars, connVars>>

----------------------------------------------------------------------------
(* Specifications *)

InitWorkers ==
    /\ objects = {}
    /\ offset = 0
    /\ low_similarity_laws = [w \in Workers |-> <<>>]
    /\ pc = [w \in Workers |-> "idle"]
    /\ new_laws = [w \in Workers |-> <<>>]
    /\ todo = [w \in Workers |-> <<>>]
    /\ existing_laws = [w \in Workers |-> <<>>]
    /\ idx = [w \in Workers |-> 1]
    /\ log = [w \in Workers |-> <<>>]
    /\ decision = [w \in Workers |-> <<>>]
    /\ before = [w \in Workers |-> {}]
    /\ seen = [w \in Workers |-> <<>>]
    /\ failure = [w \in Workers |-> <<>>]
    /\ raises = [w \in Workers |-> 0]
    /\ resubmitted = [w \in Workers |-> FALSE]

\* Weaviate._instance = None: the class has made no object
NoInstance ==
    [created |-> FALSE, id |-> 0, initialized |-> FALSE, config |-> "unset",
     client |-> "unset", index_name |-> "unset"]

\* a WeaviateClient just constructed (self.offset = 0) on an empty collection,
\* and the class Weaviate before any construction
InitConn ==
    /\ client_offset = 0
    /\ collection = <<>>
    /\ batches = <<>>
    /\ instance = NoInstance
    /\ next_id = 1
    /\ history = <<>>

\* an AsyncCallbackHandler just constructed
InitHandler ==
    /\ self_content = <<>>
    /\ final_answer = FALSE
    /\ queue = <<>>
    /\ done = FALSE
    /\ output = <<>>
    /\ llm_calls = 0
    /\ tokens_sent = 0

\* no /chat request and no websocket message
InitChatIdle ==
    /\ InitHandler
    /\ agent = "idle"
    /\ gen = "idle"

\* both ConnectionManagers just constructed, no client yet
InitSockets ==
    /\ sockets = <<>>
    /\ active_connections = <<>>
    /\ timers = <<>>
    /\ pending = {}
    /\ hub_connections = <<>>
    /\ closed_sends = {}

\* a generator constructed with either flag, generate just entered
InitGenerator ==
    /\ wait_till_success \in BOOLEAN
    /\ api_calls = <<>>
    /\ generated = [state |-> "running", value |-> <<>>, error |-> "none"]

\* a generator that is not in use
InitGeneratorIdle ==
    /\ wait_till_success = FALSE
    /\ api_calls = <<>>
    /\ generated = [state |-> "running", value |-> <<>>, error |-> "none"]

InitApp == InitChatIdle /\ InitSockets /\ InitGeneratorIdle

\* standardize_word_typing is not called on its own
InitWord ==
    /\ given_word = <<>>
    /\ typed = <<>>
    /\ typing = "off"

InitNorm ==
    /\ raw = <<>>
    /\ normalized = <<>>
    /\ renormalized = <<>>
    /\ stage = "off"
    /\ InitWord

InitSeg ==
    /\ extracted_text = <<>>
    /\ matches = <<>>
    /\ law_dict = <<>>
    /\ min_word = 0
    /\ filtered = <<>>
    /\ seg = "off"
    /\ store_ops = <<>>

\* nothing but update_laws is running
InitPages ==
    /\ num_pages = 0
    /\ start_page = 0
    /\ end_page = 0
    /\ page_text = <<>>
    /\ acq = "off"

Runs == 1..MaxRuns

\* no scanned run yet: no working directory, no timer
InitScan ==
    /\ dir_exists = FALSE
    /\ images = <<>>
    /\ timer = [r \in Runs |-> "none"]
    /\ timer_files = [r \in Runs |-> {}]
    /\ runs_started = 0
    /\ scan_pc = "idle"
    /\ window = <<0, None>>
    /\ to_save = <<>>
    /\ paths = {}
    /\ scan_text = <<>>
    /\ ocr_results = <<>>

\* nothing uploaded yet
InitUpload ==
    /\ storage = <<>>
    /\ uploads = 0
    /\ request = [filename |-> "none", payload |-> "none", file_type |-> "absent"]
    /\ processed = "none"
    /\ mode = "none"

InitAcq == InitPages /\ InitScan /\ InitUpload

InitRest == InitNorm /\ InitSeg /\ InitAcq

\* one WorkerUpdate on an empty index, calling update_laws again and again, with
\* an environment that may fail
Init ==
    /\ InitWorkers
    /\ InitConn
    /\ InitApp
    /\ InitRest
    /\ quota = [w \in Workers |-> IF w = "w1" THEN MaxCallsFaulty ELSE 0]
    /\ budget = MaxFaults

\* the same with an environment that never fails
InitReliable ==
    /\ InitWorkers
    /\ InitConn
    /\ InitApp
    /\ InitRest
    /\ quota = [w \in Workers |-> IF w = "w1" THEN MaxCalls ELSE 0]
    /\ budget = 0

\* two WorkerUpdate objects on the one Weaviate instance, one call each, running
\* concurrently; the environment never fails
InitConcurrent ==
    /\ InitWorkers
    /\ InitConn
    /\ InitApp
    /\ InitRest
    /\ quota = [w \in Workers |-> 1]
    /\ budget = 0

\* a text is given to text_preprocess
TextPreprocess ==
    /\ stage = "input"
    /\ normalized' = text_preprocess(raw)
    /\ stage' = "once"
    /\ UNCHANGED <<raw, renormalized, given_word, typed, typing, workerVars, storeVars, connVars, segVars,
                   acqVars>>

\* the result is given to text_preprocess again
TextPreprocessAgain ==
    /\ stage = "once"
    /\ renormalized' = text_preprocess(normalized)
    /\ stage' = "twice"
    /\ UNCHANGED <<raw, normalized, given_word, typed, typing, workerVars, storeVars, connVars, segVars,
                   acqVars>>

\* the texts of at most MaxLen characters, waiting for text_preprocess
InitTexts ==
    /\ InitWorkers
    /\ InitConn
    /\ InitApp
    /\ quota = [w \in Workers |-> 0]
    /\ budget = 0
    /\ InitSeg
    /\ InitAcq
    /\ raw \in UNION {[1..n -> Alphabet] : n \in 0..MaxLen}
    /\ normalized = <<>>
    /\ renormalized = <<>>
    /\ stage = "input"
    /\ InitWord

\* the characters of a word given to standardize_word_typing
WordAlphabet == {"a", "a1", "a2", "ee", "ee2", "ow", "ow1", "b"}

\* a word is given to standardize_word_typing
StandardizeWordTyping ==
    /\ typing = "input"
    /\ typed' = standardize_word_typing(given_word)
    /\ typing' = "done"
    /\ UNCHANGED <<raw, normalized, renormalized, stage, given_word, workerVars, storeVars, connVars,
                   segVars, acqVars>>

\* the words of at most MaxWordLen characters, waiting for standardize_word_typing
InitWords ==
    /\ InitWorkers
    /\ InitConn
    /\ InitApp
    /\ quota = [w \in Workers |-> 0]
    /\ budget = 0
    /\ InitSeg
    /\ InitAcq
    /\ raw = <<>>
    /\ normalized = <<>>
    /\ renormalized = <<>>
    /\ stage = "off"
    /\ given_word \in UNION {[1..n -> WordAlphabet] : n \in 0..MaxWordLen}
    /\ typed = <<>>
    /\ typing = "input"

NextWords == StandardizeWordTyping

NextTexts == TextPreprocess \/ TextPreprocessAgain

\* process_file going on whatever extract_laws_from_text returned
SplitFailedNever(split_content) == FALSE

\* `if not split_content`
SplitFailed(split_content) == split_content = <<>>

\* process_file from `if not extracted_text` to the check of split_content:
\* a ValueError is raised for an empty text and for an empty split_content, and
\* leaves process_file as a RuntimeError
ExtractLaws ==
    /\ seg = "input"
    /\ matches' = finditer(extracted_text, 1)
    /\ law_dict' = extract_laws_from_text(extracted_text)
    /\ seg' = IF extracted_text = <<>> \/ SplitFailed(law_dict') THEN "raised"
              ELSE "extracted"
    /\ UNCHANGED <<extracted_text, min_word, filtered, store_ops,
                   workerVars, storeVars, connVars, normVars, acqVars>>

\* filtered_text = filter_laws_by_length(split_content, min_word); return
FilterLaws ==
    /\ seg = "extracted"
    /\ \E m \in 1..MaxMinWord :
          /\ min_word' = m
          /\ filtered' = filter_laws_by_length(law_dict, m)
    /\ seg' = "filtered"
    /\ UNCHANGED <<extracted_text, matches, law_dict, store_ops,
                   workerVars, storeVars, connVars, normVars, acqVars>>

\* a call made to the store for the units of these law numbers
StoreOp(op, law_numbers) == [op |-> op, law_numbers |-> law_numbers]

\* /upload after process_file returned: embedding_data(filtered_text). An empty
\* dict raises; the texts are stripped and not empty, so every unit is in the
\* one insert_objects call.
EmbeddingData ==
    /\ seg = "filtered"
    /\ IF filtered = <<>>
       THEN seg' = "raised" /\ UNCHANGED store_ops
       ELSE /\ seg' = "ingested"
            /\ store_ops' = <<StoreOp("insert_objects", DOMAIN filtered)>>
    /\ UNCHANGED <<extracted_text, matches, law_dict, min_word, filtered,
                   workerVars, storeVars, connVars, normVars, acqVars>>

\* /update after process_file returned: update_laws(filtered_text) on the empty
\* index. get_existing_laws queries the store, and every unit is new and
\* inserted by embed_and_save.
UpdateLaws ==
    /\ seg = "filtered"
    /\ seg' = "ingested"
    /\ store_ops' = <<StoreOp("get_existing_laws", {})>>
                      \o (IF filtered = <<>> THEN <<>>
                          ELSE <<StoreOp("append", DOMAIN filtered)>>)
    /\ UNCHANGED <<extracted_text, matches, law_dict, min_word, filtered,
                   workerVars, storeVars, connVars, normVars, acqVars>>

\* what an acquired text is made of: whole markers, the word of a marker
\* without its number, and single characters
Pieces ==
    {Dieu \o <<" ", "1", ".">>, Dieu \o <<" ", "2", ".">>, Dieu \o <<" ", "0", ".">>,
     Dieu, <<" ">>, <<"x">>}

\* the texts of at most n pieces
RECURSIVE PieceTexts(_)
PieceTexts(n) ==
    IF n = 0 THEN {<<>>}
    ELSE LET shorter == PieceTexts(n - 1)
         IN  shorter \cup {t \o p : t \in shorter, p \in Pieces}

\* the texts of at most MaxPieces pieces, waiting for extract_laws_from_text
InitSegment ==
    /\ InitWorkers
    /\ InitConn
    /\ InitApp
    /\ InitNorm
    /\ InitAcq
    /\ quota = [w \in Workers |-> 0]
    /\ budget = 0
    /\ extracted_text \in PieceTexts(MaxPieces)
    /\ matches = <<>>
    /\ law_dict = <<>>
    /\ min_word = 0
    /\ filtered = <<>>
    /\ seg = "input"
    /\ store_ops = <<>>

\* the values a page number argument takes
PageArgs == {None} \cup (0..(MaxPages + 1))

\* extract_text_from_pdf(file_location, start_page=start_page, end_page=end_page)
ExtractTextFromPdf ==
    /\ acq = "input"
    /\ page_text' = extract_text_from_pdf(num_pages, start_page, end_page)
    /\ acq' = "done"
    /\ UNCHANGED <<num_pages, start_page, end_page, workerVars, storeVars, connVars, normVars, segVars,
                   scanVars, uploadVars>>

\* a document of 1 to MaxPages pages and a page window
InitPagesInput ==
    /\ InitWorkers
    /\ InitConn
    /\ InitApp
    /\ InitNorm
    /\ InitSeg
    /\ quota = [w \in Workers |-> 0]
    /\ budget = 0
    /\ num_pages \in 1..MaxPages
    /\ start_page \in PageArgs
    /\ end_page \in PageArgs
    /\ page_text = <<>>
    /\ acq = "input"
    /\ InitScan
    /\ InitUpload

NextPages == ExtractTextFromPdf

\* process_file from save_uploaded_file to the choice of the acquisition: the
\* text is acquired from the file at file_location, by extract_text_from_pdf
\* when file_type is "pdf" and by rendering and OCR otherwise
ProcessFile ==
    /\ uploads < MaxUploads
    /\ \E filename \in Filenames, payload \in Payloads, arg \in FileTypeArgs :
          /\ request' = [filename |-> filename, payload |-> payload, file_type |-> arg]
          /\ storage' = save_uploaded_file(storage, filename, payload)
          /\ processed' = storage'[filename]
          /\ mode' = IF FileTypeOf(arg) = "pdf" THEN "pdf" ELSE "scanned"
    /\ uploads' = uploads + 1
    /\ UNCHANGED <<pageVars, scanVars, workerVars, storeVars, connVars, normVars, segVars>>

\* requests served one after the other, from an empty BASE_STORAGE
InitUploads ==
    /\ InitWorkers
    /\ InitConn
    /\ InitApp
    /\ InitNorm
    /\ InitSeg
    /\ InitAcq
    /\ quota = [w \in Workers |-> 0]
    /\ budget = 0

NextUploads == ProcessFile

\* the page windows of the scanned runs: the defaults of the endpoints and the
\* windows inside the document, which has MaxPages pages
Windows == {<<0, None>>} \cup {w \in (1..MaxPages) \X (1..MaxPages) : w[1] <= w[2]}

\* a run has ended, or none has begun. The endpoints are coroutines that call
\* process_file without awaiting anything, so a run begins when the one before it
\* has ended; the Timer threads run beside them.
NoRun == scan_pc \in {"idle", "returned", "raised"}

\* convert_pdf_to_images, output_dir = create_output_directory(pdf_file): the name
\* of the directory is made of the file's name and the day, and
\* os.makedirs(exist_ok=True) takes the directory as it is when it exists
CreateOutputDirectory ==
    /\ NoRun
    /\ runs_started < MaxRuns
    /\ runs_started' = runs_started + 1
    /\ \E w \in Windows : window' = w
    /\ dir_exists' = TRUE
    /\ scan_pc' = "created"
    /\ to_save' = <<>>
    /\ paths' = {}
    /\ scan_text' = <<>>
    /\ ocr_results' = <<>>
    /\ UNCHANGED <<images, timer, timer_files, pageVars, uploadVars, workerVars, storeVars, connVars,
                   normVars,
                   segVars>>

\* pages = convert_from_path(...), which renders the pages or raises
ConvertFromPath ==
    /\ scan_pc = "created"
    /\ \/ /\ to_save' = enumerate(convert_from_path(MaxPages, window[1], window[2]),
                                   window[1])
          /\ scan_pc' = "saving"
       \/ /\ scan_pc' = "raised"
          /\ UNCHANGED to_save
    /\ UNCHANGED <<dir_exists, images, timer, timer_files, runs_started, window, paths,
                   scan_text, ocr_results, pageVars, uploadVars, workerVars, storeVars, connVars,
                   normVars,
                   segVars>>

\* one iteration of the loop: page.save(image_path, "JPEG") writes page_<idx>.jpg
\* over a file of that name, and raises when the directory is gone or the write
\* fails
SavePage ==
    /\ scan_pc = "saving"
    /\ to_save # <<>>
    /\ \/ /\ dir_exists
          /\ images' = (Head(to_save)[1] :> Head(to_save)[2]) @@ images
          /\ to_save' = Tail(to_save)
          /\ UNCHANGED scan_pc
       \/ /\ scan_pc' = "raised"
          /\ UNCHANGED <<images, to_save>>
    /\ UNCHANGED <<dir_exists, timer, timer_files, runs_started, window, paths, scan_text,
                   ocr_results, pageVars, uploadVars, workerVars, storeVars, connVars,
                   normVars, segVars>>

\* schedule_directory_deletion(output_dir); return output_dir
ScheduleDirectoryDeletion ==
    /\ scan_pc = "saving"
    /\ to_save = <<>>
    /\ timer' = [timer EXCEPT ![runs_started] = "pending"]
    /\ scan_pc' = "rendered"
    /\ UNCHANGED <<dir_exists, images, timer_files, runs_started, window, to_save, paths,
                   scan_text, ocr_results, pageVars, uploadVars, workerVars, storeVars, connVars,
                   normVars,
                   segVars>>

\* perform_ocr_on_directory: glob.glob(f"{output_dir}/*.jpg"), every image of the
\* directory
Glob ==
    /\ scan_pc = "rendered"
    /\ paths' = IF dir_exists THEN DOMAIN images ELSE {}
    /\ scan_pc' = "listed"
    /\ UNCHANGED <<dir_exists, images, timer, timer_files, runs_started, window, to_save,
                   scan_text, ocr_results, pageVars, uploadVars, workerVars, storeVars, connVars,
                   normVars,
                   segVars>>

\* perform_ocr_on_directory, the loop over the sorted image_paths and the join,
\* and the check of process_file that follows. Image.open raises for a file
\* that is gone; the OCR engine returns a text for each image, empty for the
\* pages in `blank`; process_file raises when the joined text is empty.
PerformOcr ==
    /\ scan_pc = "listed"
    /\ IF paths \subseteq DOMAIN images
       THEN \E blank \in SUBSET {images[n] : n \in paths} :
                /\ scan_text' = [k \in 1..Len(sorted(paths)) |-> images[sorted(paths)[k]]]
                /\ ocr_results' = [k \in 1..Len(scan_text') |->
                                      perform_ocr_on_image(scan_text'[k], blank)]
                /\ scan_pc' = IF JoinLines(ocr_results') = <<>> THEN "raised"
                              ELSE "returned"
       ELSE /\ scan_pc' = "raised"
            /\ UNCHANGED <<scan_text, ocr_results>>
    /\ UNCHANGED <<dir_exists, images, timer, timer_files, runs_started, window, to_save,
                   paths, pageVars, uploadVars, workerVars, storeVars, connVars,
                   normVars, segVars>>

\* delete_directory of the Timer of run q, up to os.listdir
TimerFires(q) ==
    /\ TimerExpires(q, timer, scan_pc)
    /\ IF dir_exists
       THEN /\ timer' = [timer EXCEPT ![q] = "deleting"]
            /\ timer_files' = [timer_files EXCEPT ![q] = DOMAIN images]
       ELSE /\ timer' = [timer EXCEPT ![q] = "fired"]
            /\ UNCHANGED timer_files
    /\ UNCHANGED <<dir_exists, images, runs_started, scan_pc, window, to_save, paths,
                   scan_text, ocr_results, pageVars, uploadVars, workerVars, storeVars, connVars,
                   normVars,
                   segVars>>

\* delete_directory of the Timer of run q, the os.remove of every file listed and
\* os.rmdir. When a listed file is gone os.remove raises, after any of the
\* others were removed; os.rmdir raises when a file is left in the directory.
\* An exception ends the thread.
DeleteDirectory(q) ==
    /\ timer[q] = "deleting"
    /\ timer' = [timer EXCEPT ![q] = "fired"]
    /\ IF timer_files[q] \subseteq DOMAIN images
       THEN /\ images' = Without(images, timer_files[q])
            /\ dir_exists' = (dir_exists /\ DOMAIN images' # {})
       ELSE /\ \E removed \in SUBSET (timer_files[q] \cap DOMAIN images) :
                  images' = Without(images, removed)
            /\ UNCHANGED dir_exists
    /\ UNCHANGED <<timer_files, runs_started, scan_pc, window, to_save, paths, scan_text,
                   ocr_results, pageVars, uploadVars, workerVars, storeVars, connVars,
                   normVars, segVars>>

\* scanned runs of one document, one after the other, from a state with no
\* working directory
InitScanned ==
    /\ InitWorkers
    /\ InitConn
    /\ InitApp
    /\ InitNorm
    /\ InitSeg
    /\ InitAcq
    /\ quota = [w \in Workers |-> 0]
    /\ budget = 0

NextScanned ==
    \/ CreateOutputDirectory
    \/ ConvertFromPath
    \/ SavePage
    \/ ScheduleDirectoryDeletion
    \/ Glob
    \/ PerformOcr
    \/ \E q \in Runs : TimerFires(q)
    \/ \E q \in Runs : DeleteDirectory(q)

----------------------------------------------------------------------------
(* WeaviateClient.insert_objects *)

Range(s) == {s[i] : i \in 1..Len(s)}

\* the units save_data hands over
Units == [law_number : LawNumbers, text : {"A", "B"}]

\* the lists of objects of a call: save_data raises on an empty list
Batches == UNION {[1..n -> Units] : n \in 1..MaxBatch}

\* for i, obj in enumerate(objects): obj['doc_id'] = self.offset + i + 1;
\* batch.add_object(properties=obj, uuid=generate_uuid5(obj['doc_id'])).
\* The uuid is a function of doc_id, and an object added under the uuid of a
\* stored object takes its place.
insert_objects(coll, self_offset, objs) ==
    LET doc_ids == [i \in 1..Len(objs) |-> self_offset + (i - 1) + 1]
    IN  [collection |-> [d \in (DOMAIN coll) \cup Range(doc_ids) |->
                            IF d \in Range(doc_ids) THEN objs[d - self_offset]
                            ELSE coll[d]],
         doc_ids |-> doc_ids]

\* save_data calls insert_objects; collections.get failing raises before any
\* object is added
InsertObjects ==
    /\ Len(batches) < MaxInserts
    /\ \E objs \in Batches : \E out \in {"ok", "connection_error"} :
          LET r == insert_objects(collection, client_offset, objs)
          IN  IF out = "ok"
              THEN /\ collection' = r.collection
                   /\ batches' = Append(batches,
                          [out |-> out, doc_ids |-> r.doc_ids,
                           replaced |-> Range(r.doc_ids) \cap DOMAIN collection])
              ELSE /\ UNCHANGED collection
                   /\ batches' = Append(batches,
                          [out |-> out, doc_ids |-> <<>>, replaced |-> {}])
    /\ UNCHANGED <<client_offset, singletonVars, appVars, workerVars, storeVars, restVars>>

InitInserts ==
    /\ InitWorkers
    /\ InitConn
    /\ InitApp
    /\ InitRest
    /\ quota = [w \in Workers |-> 0]
    /\ budget = 0

NextInserts == InsertObjects

----------------------------------------------------------------------------
(* The class Weaviate: __new__, __init__, get_instance *)

\* the configurations a construction is given
Configs == {"default", "other", "bad_schema"}

\* weaviate_config.get("url", "http://localhost:8080")
Url(config) == IF config = "other" THEN "http://weaviate:8080" ELSE "http://localhost:8080"

\* schema["class"] of weaviate_config.get("schema", DEFAULT_SCHEMA)
SchemaClass(config) == IF config = "other" THEN "Law" ELSE "Document"

\* _is_valid_schema(schema)
is_valid_schema(config) == config # "bad_schema"

\* what the server does to a construction: it is ready and takes the schema,
\* it is not ready, or it answers the schema calls with an unexpected status
Servers == {"ok", "not_ready", "status_error"}

\* __new__: the object of the class, made at the first construction
Weaviate_new(inst, id) ==
    IF ~inst.created
    THEN [NoInstance EXCEPT !.created = TRUE, !.id = id]
    ELSE inst

\* __init__ without its guard
AlreadyInitializedNever(self) == FALSE

\* `if self.initialized: return`
AlreadyInitialized(self) == self.initialized

\* __init__(self, config): the object it leaves and how it ends, "returned"
\* at the guard, "initialized" at the end of the body, "raised" inside it
Weaviate_init(self, config, server) ==
    IF AlreadyInitialized(self) THEN [self |-> self, out |-> "returned"]
    ELSE LET a == [self EXCEPT !.config = config, !.client = Url(config)]
             b == [a EXCEPT !.index_name = "None"]
         IN  IF server = "not_ready" THEN [self |-> a, out |-> "raised"]
             ELSE IF ~is_valid_schema(config) \/ server = "status_error"
                  THEN [self |-> b, out |-> "raised"]
                  ELSE [self |-> [b EXCEPT !.index_name = SchemaClass(config),
                                           !.initialized = TRUE],
                        out |-> "initialized"]

\* get_instance looking at _instance alone
NotCreatedOnly(inst) == ~inst.created

\* `cls._instance is None or not cls._instance.initialized`
NotCreated(inst) == ~inst.created \/ ~inst.initialized

\* get_instance(): the instance, or RuntimeError
get_instance(inst) == IF NotCreated(inst) THEN "RuntimeError" ELSE "instance"

\* Weaviate(config)
Construct ==
    /\ Len(history) < MaxOps
    /\ \E config \in Configs : \E server \in Servers :
          LET made == Weaviate_new(instance, next_id)
              r == Weaviate_init(made, config, server)
          IN  /\ instance' = r.self
              /\ next_id' = IF made.id = next_id THEN next_id + 1 ELSE next_id
              /\ history' = Append(history,
                     [op |-> "Weaviate", config |-> config, out |-> r.out,
                      id |-> made.id, before |-> instance, after |-> r.self])
    /\ UNCHANGED <<clientVars, appVars, workerVars, storeVars, restVars>>

\* Weaviate.get_instance()
GetInstance ==
    /\ Len(history) < MaxOps
    /\ history' = Append(history,
           [op |-> "get_instance", config |-> "none", out |-> get_instance(instance),
            id |-> instance.id, before |-> instance, after |-> instance])
    /\ UNCHANGED <<instance, next_id, clientVars, appVars, workerVars, storeVars, restVars>>

InitSingleton ==
    /\ InitWorkers
    /\ InitConn
    /\ InitApp
    /\ InitRest
    /\ quota = [w \in Workers |-> 0]
    /\ budget = 0

NextSingleton == Construct \/ GetInstance

----------------------------------------------------------------------------
(* AsyncCallbackHandler and create_gen (langchain/streaming.py). A token is a *)
(* sequence of characters; the texts the handler looks for are written short: *)
(*   "F" "A"  the two halves of the text Final Answer                         *)
(*   "i" "q"  the text "action_input": and the space and double quote after   *)
(*            it; "q" alone is the double quote                               *)
(*   "b"      the closing brace                                               *)
(*   "x"      any other text                                                  *)

FinalAnswer == <<"F", "A">>
ActionInput == <<"i", "q">>

\* the tokens the LLM delivers: a text may come in one token or split in two
Tokens ==
    {<<"F">>, <<"A">>, <<"F", "A">>, <<"i">>, <<"q">>, <<"i", "q">>, <<"b">>, <<"x">>}

\* marker in text
Contains(text, marker) ==
    \E i \in 1..(Len(text) - Len(marker) + 1) :
        SubSeq(text, i, i + Len(marker) - 1) = marker

\* token in ['"', "}"]
Skipped(token) == token \in {<<"q">>, <<"b">>}

\* on_llm_new_token(token) on the handler h = [content, final_answer, queue]
on_llm_new_token(h, token) ==
    LET c == h.content \o token
    IN  IF h.final_answer
        THEN [h EXCEPT !.content = c,
                       !.queue = IF Contains(c, ActionInput) /\ ~Skipped(token)
                                 THEN Append(h.queue, token) ELSE h.queue]
        ELSE IF Contains(c, FinalAnswer)
             THEN [h EXCEPT !.content = <<>>, !.final_answer = TRUE]
             ELSE [h EXCEPT !.content = c]

\* an on_llm_end that leaves final_answer as it is
on_llm_endKeeping(h) ==
    [content |-> <<>>, final_answer |-> h.final_answer, done |-> h.done \/ h.final_answer]

\* on_llm_end on the handler h = [content, final_answer, done]: done is set
\* only when final_answer is
on_llm_end(h) ==
    [content |-> <<>>, final_answer |-> FALSE, done |-> h.done \/ h.final_answer]

\* the LLM delivers a token of the running LLM call
OnLlmNewToken ==
    /\ agent = "running"
    /\ tokens_sent < MaxTokens
    /\ \E token \in Tokens :
          LET h == on_llm_new_token([content |-> self_content, final_answer |-> final_answer,
                                     queue |-> queue], token)
          IN  /\ self_content' = h.content
              /\ final_answer' = h.final_answer
              /\ queue' = h.queue
              /\ output' = output \o token
    /\ tokens_sent' = tokens_sent + 1
    /\ UNCHANGED <<done, agent, llm_calls, gen, socketVars, hydeVars, clientVars, singletonVars,
                   workerVars, storeVars, restVars>>

\* the running LLM call ends; the agent makes another LLM call, or its run
\* ends (agent.acall returns or raises)
OnLlmEnd ==
    /\ agent = "running"
    /\ LET h == on_llm_end([content |-> self_content, final_answer |-> final_answer,
                            done |-> done])
       IN  /\ self_content' = h.content
           /\ final_answer' = h.final_answer
           /\ done' = h.done
    /\ output' = <<>>
    /\ llm_calls' = llm_calls + 1
    /\ \E goes_on \in {FALSE} \cup {llm_calls + 1 < MaxLlmCalls} :
          agent' = IF goes_on THEN "running" ELSE "ended"
    /\ UNCHANGED <<queue, tokens_sent, gen, socketVars, hydeVars, clientVars, singletonVars,
                   workerVars, storeVars, restVars>>

\* `async for token in stream_it.aiter(): yield token`, a token taken from the
\* queue
AiterYield ==
    /\ gen = "iterating"
    /\ queue # <<>>
    /\ queue' = Tail(queue)
    /\ UNCHANGED <<self_content, final_answer, done, output, agent, llm_calls, tokens_sent, gen,
                   socketVars, hydeVars, clientVars, singletonVars, workerVars, storeVars, restVars>>

\* aiter ends: done is set
AiterEnd ==
    /\ gen = "iterating"
    /\ done
    /\ gen' = "awaiting"
    /\ UNCHANGED <<self_content, final_answer, queue, done, output, agent, llm_calls, tokens_sent,
                   socketVars, hydeVars, clientVars, singletonVars, workerVars, storeVars, restVars>>

\* `await task`: run_call has ended
AwaitTask ==
    /\ gen = "awaiting"
    /\ agent = "ended"
    /\ gen' = "finished"
    /\ UNCHANGED <<self_content, final_answer, queue, done, output, agent, llm_calls, tokens_sent,
                   socketVars, hydeVars, clientVars, singletonVars, workerVars, storeVars, restVars>>

\* create_gen(query, AsyncCallbackHandler()) has made the task of run_call
InitChat ==
    /\ InitWorkers
    /\ InitConn
    /\ InitRest
    /\ quota = [w \in Workers |-> 0]
    /\ budget = 0
    /\ InitHandler
    /\ agent = "running"
    /\ gen = "iterating"
    /\ InitSockets
    /\ InitGeneratorIdle

----------------------------------------------------------------------------
(* The websocket connection managers (langchain/streaming.py and             *)
(* app/socket/main.py). A websocket is named by its place in sockets.        *)

Sessions == {"s1", "s2"}

Socket(application, session) ==
    [application |-> application, session |-> session, open |-> TRUE,
     handler |-> "running", closed_by |-> 0]

\* del d[key]
Del(d, key) == [k \in DOMAIN d \ {key} |-> d[k]]

\* d[key] = value
Put(d, key, value) == (key :> value) @@ d

\* streaming.py ConnectionManager.disconnect(session_id)
disconnect(connections, session_id) ==
    IF session_id \in DOMAIN connections THEN Del(connections, session_id) ELSE connections

\* streaming.py websocket_endpoint up to its loop: manager.connect accepts the
\* websocket, stores it under session_id and starts a timeout task, stored
\* under session_id as well
Connect ==
    /\ Len(sockets) < MaxSockets
    /\ \E session_id \in Sessions :
          LET websocket == Len(sockets) + 1
          IN  /\ sockets' = Append(sockets, Socket("chat", session_id))
              /\ active_connections' = Put(active_connections, session_id, websocket)
              /\ timers' = Put(timers, session_id, websocket)
              /\ pending' = pending \cup {websocket}
    /\ UNCHANGED <<hub_connections, closed_sends, chatVars, hydeVars, clientVars, singletonVars,
                   workerVars, storeVars, restVars>>

\* streaming.py websocket_endpoint ends: receive_text raised WebSocketDisconnect
\* (the client went away, or the websocket was closed), which is caught and
\* printed, or another exception left the handler
HandlerEnds ==
    /\ \E websocket \in 1..Len(sockets) :
          /\ sockets[websocket].application = "chat"
          /\ sockets[websocket].handler = "running"
          /\ sockets' = [sockets EXCEPT ![websocket].handler = "ended",
                                        ![websocket].open = FALSE]
    /\ UNCHANGED <<active_connections, timers, pending, hub_connections, closed_sends,
                   chatVars, hydeVars, clientVars, singletonVars, workerVars, storeVars, restVars>>

\* streaming.py close_after_timeout(session_id, timeout) after its sleep: the
\* websocket stored under session_id is sent the notice, closed and forgotten;
\* send_text on a closed websocket raises and ends the task
CloseAfterTimeout ==
    /\ \E own \in pending :
          LET session_id == sockets[own].session
              websocket == active_connections[session_id]
          IN  /\ pending' = pending \ {own}
              /\ IF session_id \notin DOMAIN active_connections
                 THEN UNCHANGED <<sockets, active_connections, closed_sends>>
                 ELSE IF sockets[websocket].open
                      THEN /\ sockets' = [sockets EXCEPT ![websocket].open = FALSE,
                                                         ![websocket].closed_by = own]
                           /\ active_connections' =
                                  disconnect(active_connections, session_id)
                           /\ UNCHANGED closed_sends
                      ELSE /\ closed_sends' = closed_sends \cup {websocket}
                           /\ UNCHANGED <<sockets, active_connections>>
    /\ UNCHANGED <<timers, hub_connections, chatVars, hydeVars, clientVars, singletonVars,
                   workerVars, storeVars, restVars>>

\* socket/main.py websocket_endpoint up to its loop: manager.connect accepts the
\* websocket and appends it to the list
HubConnect ==
    /\ Len(sockets) < MaxSockets
    /\ \E client_id \in Sessions :
          /\ sockets' = Append(sockets, Socket("hub", client_id))
          /\ hub_connections' = Append(hub_connections, Len(sockets) + 1)
    /\ UNCHANGED <<active_connections, timers, pending, closed_sends, chatVars, hydeVars,
                   clientVars, singletonVars, workerVars, storeVars, restVars>>

\* socket/main.py websocket_endpoint ends: `except WebSocketDisconnect` calls
\* manager.disconnect(websocket), `except Exception` only prints
HubHandlerEnds ==
    /\ \E websocket \in 1..Len(sockets) : \E raised \in {"WebSocketDisconnect", "Exception"} :
          /\ sockets[websocket].application = "hub"
          /\ sockets[websocket].handler = "running"
          /\ sockets' = [sockets EXCEPT ![websocket].handler = "ended",
                                        ![websocket].open = FALSE]
          /\ hub_connections' =
                 IF raised = "WebSocketDisconnect"
                 THEN SelectSeq(hub_connections, LAMBDA c : c # websocket)
                 ELSE hub_connections
    /\ UNCHANGED <<active_connections, timers, pending, closed_sends, chatVars, hydeVars,
                   clientVars, singletonVars, workerVars, storeVars, restVars>>

\* socket/main.py broadcast(message): send_text on every connection of the
\* list; the exception of a closed one is caught and printed
Broadcast ==
    /\ hub_connections # <<>>
    /\ closed_sends' = closed_sends \cup
          {hub_connections[i] : i \in {j \in 1..Len(hub_connections) :
                                          ~sockets[hub_connections[j]].open}}
    /\ UNCHANGED <<sockets, active_connections, timers, pending, hub_connections,
                   chatVars, hydeVars, clientVars, singletonVars, workerVars, storeVars, restVars>>

InitSocketsInput ==
    /\ InitWorkers
    /\ InitConn
    /\ InitApp
    /\ InitRest
    /\ quota = [w \in Workers |-> 0]
    /\ budget = 0

----------------------------------------------------------------------------
(* OpenAIGenerator.generate (core/query/hyde.py) *)

\* a choice of a response that lacks ["message"]["content"]
NoMessage == "no message"

\* the contents of the choices of a response
Contents == {"a", "b", NoMessage}

Responses == UNION {[1..n -> Contents] : n \in 0..MaxChoices}

\* what one openai.ChatCompletion.create can do
ApiOutcomes ==
    {[kind |-> "response", choices |-> r] : r \in Responses}
        \cup {[kind |-> k, choices |-> <<>>] : k \in {"OpenAIError", "Exception"}}

\* parse_response(response): the contents of the choices; a choice without
\* one raises KeyError
ParseRaises(response) == \E i \in 1..Len(response.choices) : response.choices[i] = NoMessage
parse_response(response) == [i \in 1..Len(response.choices) |-> response.choices[i]]

Raised(error) == [state |-> "raised", value |-> <<>>, error |-> error]

\* a loop that goes on after any exception when wait_till_success is set
generate_stepRetryAny(wait, outcome) ==
    IF outcome.kind = "response" /\ ~ParseRaises(outcome)
    THEN [state |-> "returned", value |-> parse_response(outcome), error |-> "none"]
    ELSE IF wait
         THEN [state |-> "running", value |-> <<>>, error |-> "none"]
         ELSE Raised(IF outcome.kind = "OpenAIError" THEN "OpenAIError" ELSE "RuntimeError")

\* one turn of the `while True` of generate: the call and the parse are in one
\* try; OpenAIError sleeps and goes on, or is raised again; any other
\* exception becomes a RuntimeError
generate_step(wait, outcome) ==
    IF outcome.kind = "response"
    THEN IF ParseRaises(outcome)
         THEN Raised("RuntimeError")
         ELSE [state |-> "returned", value |-> parse_response(outcome), error |-> "none"]
    ELSE IF outcome.kind = "OpenAIError"
         THEN IF wait
              THEN [state |-> "running", value |-> <<>>, error |-> "none"]
              ELSE Raised("OpenAIError")
         ELSE Raised("RuntimeError")

Attempt ==
    /\ generated.state = "running"
    /\ Len(api_calls) < MaxAttempts
    /\ \E outcome \in ApiOutcomes :
          /\ api_calls' = Append(api_calls, outcome)
          /\ generated' = generate_step(wait_till_success, outcome)
    /\ UNCHANGED <<wait_till_success, chatVars, socketVars, clientVars, singletonVars,
                   workerVars, storeVars, restVars>>

InitGenerate ==
    /\ InitWorkers
    /\ InitConn
    /\ InitChatIdle
    /\ InitSockets
    /\ InitGenerator
    /\ InitRest
    /\ quota = [w \in Workers |-> 0]
    /\ budget = 0

NextGenerate == Attempt

NextSockets ==
    Connect \/ HandlerEnds \/ CloseAfterTimeout \/ HubConnect \/ HubHandlerEnds \/ Broadcast

NextChat == OnLlmNewToken \/ OnLlmEnd \/ AiterYield \/ AiterEnd \/ AwaitTask


NextSegment == ExtractLaws \/ FilterLaws \/ EmbeddingData \/ UpdateLaws

Next ==
    \E w \in Workers :
        \/ update_laws(w)
        \/ GetExistingLaws(w)
        \/ CompareLaws(w)
        \/ DeleteLowSimilarityLaws(w)
        \/ ReEmbedLaws(w)

Spec == Init /\ [][Next]_vars
SpecReliable == InitReliable /\ [][Next]_vars
SpecConcurrent == InitConcurrent /\ [][Next]_vars
SpecTexts == InitTexts /\ [][NextTexts]_vars
SpecSegment == InitSegment /\ [][NextSegment]_vars
SpecPages == InitPagesInput /\ [][NextPages]_vars
SpecScanned == InitScanned /\ [][NextScanned]_vars
SpecUploads == InitUploads /\ [][NextUploads]_vars
SpecWords == InitWords /\ [][NextWords]_vars
SpecInserts == InitInserts /\ [][NextInserts]_vars
SpecSingleton == InitSingleton /\ [][NextSingleton]_vars
SpecChat == InitChat /\ [][NextChat]_vars
SpecSockets == InitSocketsInput /\ [][NextSockets]_vars
SpecGenerate == InitGenerate /\ [][NextGenerate]_vars
\* the event loop runs every coroutine that can go on
SpecChatFair ==
    SpecChat /\ WF_vars(AiterYield) /\ WF_vars(AiterEnd) /\ WF_vars(AwaitTask)

----------------------------------------------------------------------------
(* update_laws run to its end for one iteration order of new_laws.items(), in *)
(* an environment that does not fail                                         *)

RECURSIVE RunCompare(_, _, _, _)
RunCompare(f, new, existing, order) ==
    IF order = <<>> \/ f.raised THEN f
    ELSE LET law_number == Head(order)
             out == CHOOSE o \in EmbedOutcomes(new[law_number], FALSE) : TRUE
         IN  RunCompare(CompareStep(f, new, existing, law_number, out),
                        new, existing, Tail(order))

RECURSIVE RunDelete(_, _)
RunDelete(f, i) ==
    IF i > Len(f.low) \/ f.raised THEN f
    ELSE RunDelete(DeleteStep(f, f.low[i], "ok", {}), i + 1)

RECURSIVE RunReEmbed(_, _, _)
RunReEmbed(f, new, i) ==
    IF i > Len(f.low) \/ f.raised THEN f
    ELSE LET law_number == f.low[i]
             out == IF law_number \in DOMAIN new
                    THEN CHOOSE o \in EmbedOutcomes(new[law_number], FALSE) : TRUE
                    ELSE "key_error"
         IN  RunReEmbed(ReEmbedStep(f, new, law_number, out), new, i + 1)

RunUpdateLaws(f, new, existing, order) ==
    RunReEmbed(RunDelete(RunCompare(f, new, existing, order), 1), new, 1)

----------------------------------------------------------------------------
(* Vocabulary of the claims *)

Ended(w) == pc[w] \in {"returned", "raised"}

\* the keys for which the log l holds a call of operation op that went through
KeysDone(l, op) ==
    {l[i].law_number : i \in {j \in 1..Len(l) : l[j].op = op /\ l[j].out = "ok"}}

\* the call of w stands right before the first iteration of its comparison loop
LoopStart(w) == pc[w] = "compare" /\ DOMAIN decision[w] = {}

----------------------------------------------------------------------------
(* Claims about update_laws *)

\* C1: no implicit deletion. From the start of a call of update_laws to its end,
\* returned or raised, every object that was stored when the call began and whose
\* law_number is not a key of the call's new_laws is still stored, unchanged.
C1_NoImplicitDeletion ==
    \A w \in Workers :
        pc[w] # "idle" =>
            \A o \in before[w] : o.law_number \notin DOMAIN new_laws[w] => o \in objects

\* C2: reconciliation decision. Every key of new_laws the comparison loop has
\* reached is decided Insert exactly when it is absent from the snapshot, Update
\* exactly when it is present with similarity <= 17/20 (equality included), Skip
\* exactly when it is present with similarity > 17/20; equal stored and new text
\* is Skip; a call that got past the loop has decided every key of new_laws.
C2_ReconciliationDecision ==
    \A w \in Workers :
        /\ DOMAIN decision[w] \subseteq DOMAIN new_laws[w]
        /\ pc[w] \in {"delete", "reembed", "returned"} =>
               DOMAIN decision[w] = DOMAIN new_laws[w]
        /\ \A k \in DOMAIN decision[w] :
              LET present == k \in DOMAIN existing_laws[w]
                  old == Chars[existing_laws[w][k]]
                  new == Chars[new_laws[w][k]]
                  m == Max(Len(old), Len(new))
                  d == Levenshtein(old, new)
              IN  /\ decision[w][k] = "Insert" <=> ~present
                  /\ decision[w][k] = "Update" <=> (present /\ 20 * (m - d) <= 17 * m)
                  /\ decision[w][k] = "Skip" <=> (present /\ 20 * (m - d) > 17 * m)
                  /\ (present /\ old = new) => decision[w][k] = "Skip"
                  /\ (present /\ existing_laws[w][k] = "A" /\ new_laws[w][k] = "B")
                        => decision[w][k] = "Update"
                  /\ (present /\ existing_laws[w][k] = "A" /\ new_laws[w][k] = "C")
                        => decision[w][k] = "Skip"

\* C2 witness: a call returned in which key 1 was decided Update on a similarity of
\* exactly 17/20 and key 2 was decided Skip on two different texts.
C2_Witness ==
    \E w \in Workers :
        /\ pc[w] = "returned"
        /\ DOMAIN decision[w] = {1, 2}
        /\ decision[w][1] = "Update"
        /\ get_similarity(existing_laws[w][1], new_laws[w][1]) = <<17, 20>>
        /\ decision[w][2] = "Skip"
        /\ existing_laws[w][2] # new_laws[w][2]

\* C3 as stated: within one call, no delete_law_number is issued after an
\* embed_and_save, whether the key was decided Insert or Update.
C3_DeletionsBeforeAnyInsert ==
    \A w \in Workers : \A i, j \in 1..Len(log[w]) :
        (i < j /\ log[w][i].op = "insert") => log[w][j].op # "delete"

\* C3 amended: within one call, every delete_law_number is issued after the
\* comparison loop, in which the absent keys are embedded and inserted, and before
\* every embed_and_save of the re-embedding loop.
C3_DeletionsBeforeReEmbedding ==
    \A w \in Workers : \A i, j \in 1..Len(log[w]) :
        i < j =>
            /\ log[w][i].phase = "reembed" => log[w][j].op # "delete"
            /\ log[w][i].op = "delete" => log[w][j].phase # "compare"

\* C3 witness: a call returned after an insert of the comparison loop, then a
\* deletion, then a re-embedding.
C3_Witness ==
    \E w \in Workers :
        /\ pc[w] = "returned"
        /\ \E i, j, k \in 1..Len(log[w]) :
              /\ i < j /\ j < k
              /\ log[w][i].op = "insert" /\ log[w][i].phase = "compare"
              /\ log[w][j].op = "delete"
              /\ log[w][k].op = "insert" /\ log[w][k].phase = "reembed"

\* C4: Update is delete-then-insert by key. When a call returns, for every key it
\* decided Update no object stored under the key before the call is left and the
\* store holds exactly one object under the key, with the new content as text.
C4_UpdateReplaces ==
    \A w \in Workers :
        pc[w] = "returned" =>
            \A k \in DOMAIN decision[w] :
                decision[w][k] = "Update" =>
                    /\ ObjectsUnder(objects, k) \cap before[w] = {}
                    /\ \E o \in objects :
                          /\ ObjectsUnder(objects, k) = {o}
                          /\ o.text = new_laws[w][k]

\* C5: Skip leaves the store untouched. When a call has ended, for every key it
\* decided Skip it has issued neither a deletion nor an insertion and the objects
\* under the key are those stored when the call began.
C5_SkipUntouched ==
    \A w \in Workers :
        Ended(w) =>
            \A k \in DOMAIN decision[w] :
                decision[w][k] = "Skip" =>
                    /\ \A i \in 1..Len(log[w]) : log[w][i].law_number # k
                    /\ ObjectsUnder(objects, k) = ObjectsUnder(before[w], k)

\* what one iteration order makes of the call w is about to run
Outcome(w, order) == RunUpdateLaws(Frame(w), new_laws[w], existing_laws[w], order)

\* the step changes only objects stored under law_number
TouchesOnly(law_number) ==
    \A o \in (objects \ objects') \cup (objects' \ objects) : o.law_number = law_number

\* every step that calls embed_and_save or delete_law_number for a key changes
\* only the objects stored under that key, and no other step changes the store
OwnKeyOnly ==
    \A w \in Workers :
        IF Len(log'[w]) = Len(log[w]) + 1
        THEN TouchesOnly(Last(log'[w]).law_number)
        ELSE (\A v \in Workers : Len(log'[v]) # Len(log[v]) + 1) => objects' = objects

C7_FailFast ==
    \A w \in Workers : \A i \in 1..Len(log[w]) :
        log[w][i].out # "ok" => (i = Len(log[w]) /\ pc[w] = "raised")

\* C8: no rollback. When a call has raised in its re-embedding loop, no object
\* that was stored when the call began and that one of its deletions removed is
\* back in the store.
C8_NoRollback ==
    \A w \in Workers :
        (pc[w] = "raised" /\ log[w] # <<>> /\ Last(log[w]).phase = "reembed") =>
            \A o \in before[w] :
                o.law_number \in KeysDone(log[w], "delete") => o \notin objects

\* C8 witness: a call has raised on a failed embedding of its re-embedding loop and
\* a law_number that was stored when it began has no object left.
C8_Witness ==
    \E w \in Workers : \E k \in LawNumbers :
        /\ pc[w] = "raised"
        /\ log[w] # <<>>
        /\ Last(log[w]).phase = "reembed"
        /\ Last(log[w]).out \in {"blank", "embed_error"}
        /\ ObjectsUnder(before[w], k) # {}
        /\ ObjectsUnder(objects, k) = {}

\* the docids the successful inserts of the call of w were given
Docids(w) == {log[w][i].docid : i \in {j \in 1..Len(log[w]) : log[w][j].docid # -1}}

\* C9: duplicate-key race. A call that read a law_number as not present decides
\* Insert and writes, whatever the other call has written since; a law_number
\* that every one of the concurrent calls decided Insert and inserted is stored
\* once per call when the appends were given different docids: nothing between
\* the snapshot and the write keeps the objects apart.
C9_BothInsert ==
    /\ \A w \in Workers : \A k \in DOMAIN decision[w] :
          k \notin DOMAIN existing_laws[w] =>
              /\ decision[w][k] = "Insert"
              /\ \E i \in 1..Len(log[w]) :
                    /\ log[w][i].op = "insert"
                    /\ log[w][i].law_number = k
                    /\ log[w][i].phase = "compare"
    /\ \A k \in LawNumbers :
          (/\ \A w \in Workers :
                /\ k \in DOMAIN decision[w]
                /\ decision[w][k] = "Insert"
                /\ k \in KeysDone(log[w], "insert")
           /\ \A v, w \in Workers : v # w => Docids(v) \cap Docids(w) = {})
          => Cardinality(ObjectsUnder(objects, k)) = Cardinality(Workers)

\* C9 witness: both calls have returned, both read law_number 1 as not present
\* and decided Insert, and two objects are stored under it.
C9_Witness ==
    /\ \A w \in Workers :
          /\ pc[w] = "returned"
          /\ 1 \in DOMAIN new_laws[w]
          /\ 1 \notin DOMAIN existing_laws[w]
          /\ decision[w][1] = "Insert"
    /\ Cardinality(ObjectsUnder(objects, 1)) = 2

----------------------------------------------------------------------------
(* Claims about text_preprocess *)

\* C10: normalization is idempotent. For every text x,
\* text_preprocess(text_preprocess(x)) = text_preprocess(x).
C10_Idempotent == stage = "twice" => renormalized = normalized

----------------------------------------------------------------------------
(* Claims about extract_laws_from_text and filter_laws_by_length *)

\* extract_laws_from_text has run
Extracted == seg \notin {"off", "input"}

\* the positions of the acquired text where a marker stands
Markers == {i \in 1..Len(extracted_text) : MarkerAt(extracted_text, i)}

\* C11: segmentation partition. The matches start at the markers of the text, at
\* every one of them and in order; each runs up to, not including, the next marker
\* or the end of the text, so no two overlap and the text before the first marker
\* is in none; the content of a match is its span without the whitespace around
\* it, and every text of the mapping is the content of a match.
C11_SegmentationPartition ==
    Extracted =>
        LET markers == Markers
        IN  /\ {matches[n].start : n \in 1..Len(matches)} = markers
            /\ \A n \in 1..Len(matches) :
                  /\ matches[n].start < matches[n].end
                  /\ matches[n].end = IF n < Len(matches) THEN matches[n + 1].start
                                      ELSE Len(extracted_text) + 1
                  /\ \A i \in (matches[n].start + 1)..(matches[n].end - 1) : i \notin markers
                  /\ matches[n].content =
                        RStrip(LStrip(SubSeq(extracted_text, matches[n].start,
                                             matches[n].end - 1)))
            /\ \A k \in DOMAIN law_dict :
                  \E n \in 1..Len(matches) :
                      matches[n].law_number = k /\ matches[n].content = law_dict[k]

\* C11 witness: a text with characters before its first marker and two markers,
\* the span of the first ending in whitespace.
C11_Witness ==
    /\ Extracted
    /\ Len(matches) = 2
    /\ matches[1].start > 1
    /\ Len(matches[1].content) < matches[1].end - matches[1].start
    /\ DOMAIN law_dict = {1, 2}

\* C12: duplicate marker, last write wins. The mapping has one entry for each law
\* number that stands at a marker, and its text is the content of the last match
\* with that number.
C12_LastWriteWins ==
    Extracted =>
        /\ DOMAIN law_dict = {matches[n].law_number : n \in 1..Len(matches)}
        /\ \A n \in 1..Len(matches) :
              (\A j \in (n + 1)..Len(matches) : matches[j].law_number # matches[n].law_number)
                  => law_dict[matches[n].law_number] = matches[n].content

\* C12 witness: law number 1 stands at two markers with different spans; the
\* mapping holds the later one, and the earlier one is the text of no unit.
C12_Witness ==
    /\ Extracted
    /\ Len(matches) = 2
    /\ matches[1].law_number = 1
    /\ matches[2].law_number = 1
    /\ matches[1].content # matches[2].content
    /\ law_dict = (1 :> matches[2].content)

\* C14: law_number is a positive integer. Every key of the mapping of
\* extract_laws_from_text, and of what filter_laws_by_length keeps of it, is an
\* integer >= 1.
C14_LawNumberPositive ==
    /\ \A k \in DOMAIN law_dict : k \in Nat /\ k >= 1
    /\ \A k \in DOMAIN filtered : k \in Nat /\ k >= 1

\* C15: length filter. filter_laws_by_length keeps exactly the law numbers whose
\* text, as extract_laws_from_text returned it, has at least min_word
\* whitespace-separated tokens, and maps each to text_preprocess of that text.
C15_LengthFilter ==
    seg \in {"filtered", "ingested"} =>
        /\ DOMAIN filtered =
              {k \in DOMAIN law_dict : Len(Split(law_dict[k], <<>>)) >= min_word}
        /\ \A k \in DOMAIN filtered : filtered[k] = text_preprocess(law_dict[k])

\* C15 witness: a unit of exactly min_word tokens is kept, and a unit of
\* min_word - 1 tokens is dropped although its normalization has min_word tokens.
C15_Witness ==
    /\ seg = "filtered"
    /\ \E k \in DOMAIN filtered : Len(Split(law_dict[k], <<>>)) = min_word
    /\ \E k \in DOMAIN law_dict \ DOMAIN filtered :
          /\ Len(Split(law_dict[k], <<>>)) = min_word - 1
          /\ Len(Split(text_preprocess(law_dict[k]), <<>>)) >= min_word

\* C13: empty segmentation aborts ingestion. When the acquired text has no
\* marker, extract_laws_from_text returns the empty mapping, process_file raises
\* and returns nothing, and the endpoint makes no call to the store: nothing is
\* read, deleted or inserted.
C13_EmptySegmentationAborts ==
    (Extracted /\ Markers = {}) =>
        /\ law_dict = <<>>
        /\ seg = "raised"
        /\ filtered = <<>>
        /\ store_ops = <<>>
        /\ objects = {}

\* C13 witness: process_file has raised for a text that is not empty, holds the
\* word of a marker, and has no marker.
C13_Witness ==
    /\ seg = "raised"
    /\ Markers = {}
    /\ \E i \in 1..(Len(extracted_text) - Len(Dieu) + 1) :
          SubSeq(extracted_text, i, i + Len(Dieu) - 1) = Dieu

----------------------------------------------------------------------------
(* Claims about extract_text_from_pdf *)

\* C16: digital extraction page window. For 1 <= start_page <= end_page within
\* the document, extract_text_from_pdf returns the text of exactly the pages
\* start_page..end_page, numbered from 1 and both endpoints included.
C16_PageWindow ==
    (acq = "done" /\ 1 <= start_page /\ start_page <= end_page /\ end_page <= num_pages) =>
        page_text = [k \in 1..(end_page - start_page + 1) |-> start_page + k - 1]

\* C17: falsy page-window sentinel. When start_page or end_page is None or 0 the
\* whole document is extracted, whatever the other endpoint; a window is applied
\* only when both endpoints are non-zero.
C17_FalsySentinel ==
    acq = "done" =>
        /\ (start_page \in {None, 0} \/ end_page \in {None, 0})
              => page_text = [k \in 1..num_pages |-> k]
        /\ page_text # [k \in 1..num_pages |-> k]
              => (start_page \notin {None, 0} /\ end_page \notin {None, 0})

\* C17 witness: the whole of a three-page document is returned for a window
\* whose start is 0 or None and whose end is page 2.
C17_Witness ==
    /\ acq = "done"
    /\ num_pages = 3
    /\ start_page \in {None, 0}
    /\ end_page = 2
    /\ page_text = <<1, 2, 3>>

----------------------------------------------------------------------------
(* Claims about the scanned acquisition *)

\* C18: scanned acquisition returns exactly the requested pages in page order.
\* Whatever runs came before it, the text a run returns is the OCR text of the
\* pages of its own window, each once and in ascending order.
C18_ScannedExactPages ==
    scan_pc = "returned" => scan_text = convert_from_path(MaxPages, window[1], window[2])

\* a run is between rendering and the end of OCR
MidOcr == scan_pc \in {"rendered", "listed"}

\* C19: cleanup-timer race. Nothing holds back the Timer of an earlier run while
\* a later run is between rendering and the end of OCR on the same directory:
\* its delete_directory can begin, and once it has listed the files it can
\* remove them.
C19_TimerRace ==
    \A q \in Runs :
        (q < runs_started /\ MidOcr) =>
            /\ timer[q] = "pending" => ENABLED TimerFires(q)
            /\ timer[q] = "deleting" => ENABLED DeleteDirectory(q)

\* C19 witness: the second run listed the images of the directory, and before its
\* OCR ended the Timer of the first run removed them and the directory; the
\* Timer of the second run has not fired.
C19_Witness ==
    /\ runs_started = 2
    /\ scan_pc = "listed"
    /\ paths # {}
    /\ timer[1] = "fired"
    /\ timer[2] = "pending"
    /\ ~dir_exists

\* C20: the transient working directory is eventually removed. A directory that
\* exists has a Timer pending for it, or a run still inside convert_pdf_to_images
\* that will start one; and when every Timer has fired and no run is using the
\* directory, the directory and its images are gone.
C20_DirectoryRemoved ==
    /\ dir_exists =>
          \/ scan_pc \in {"created", "saving"}
          \/ \E q \in Runs : timer[q] \in {"pending", "deleting"}
    /\ (NoRun /\ \A q \in Runs : timer[q] \in {"none", "fired"}) =>
          (~dir_exists /\ images = <<>>)

\* C21: OCR failure aborts ingestion. When the OCR engine returned an empty
\* text for a page the run read, the run has not returned a text: process_file
\* raised, and nothing of the document goes on to segmentation.
C21_OcrFailureAborts ==
    (scan_pc = "returned") => \A k \in 1..Len(ocr_results) : ocr_results[k] # <<>>

----------------------------------------------------------------------------
(* Claims about the failures of update_laws *)

\* the outcomes of a step that leave update_laws as an exception
Raising == {"blank", "embed_error", "flush_error", "index_missing", "key_error"}

----------------------------------------------------------------------------
(* Claims about process_file *)

\* C23: acquisition mode decision. A request that gives no file_type has its
\* text acquired by rendering and OCR when the text layer of the document is
\* empty after trimming, and by direct extraction otherwise; a request that
\* gives a file_type has it acquired that way.
C23_ModeDecision ==
    uploads > 0 =>
        mode = IF request.file_type # "absent" THEN request.file_type
               ELSE IF is_pdf_scanned(processed) THEN "scanned"
               ELSE "pdf"

\* C24: a source document lives for one request. The text of a request is
\* acquired from the bytes uploaded with it.
C24_PayloadOfRequest ==
    uploads > 0 => processed = request.payload

----------------------------------------------------------------------------
(* Claims about standardize_word_typing *)

\* the vowels of the table, the unmarked form and the tone mark of a character
IsTableVowel(c) == c \in DOMAIN vowels_to_ids
BaseOf(c) == IF IsTableVowel(c) THEN vowels_table(vowels_to_ids[c][1], 0) ELSE c
ToneOf(c) == IF IsTableVowel(c) THEN vowels_to_ids[c][2] ELSE 0
VowelsOf(chars) == {i \in 1..Len(chars) : IsTableVowel(chars[i])}
MarkedOf(chars) == {i \in 1..Len(chars) : ToneOf(chars[i]) # 0}

\* C25: tone-mark re-placement. The result of standardize_word_typing has the
\* base letters of the word, in order, and at most one tone-marked vowel. When
\* the word has a tone-marked vowel the result has one, with the mark of the
\* last marked vowel of the word: on the only vowel, or with two vowels or more
\* on the first vowel of the row of e-circumflex or o-horn, or on the second
\* vowel when there is none of these. When the word has no mark the result has
\* none.
C25_ToneReplacement ==
    typing = "done" =>
        LET vowels == VowelsOf(given_word)
            marked == MarkedOf(given_word)
            prior == {i \in vowels : vowels_to_ids[given_word[i]][1] \in {4, 8}}
            second == CHOOSE i \in vowels : Cardinality({j \in vowels : j < i}) = 1
            target == IF Cardinality(vowels) = 1 THEN CHOOSE i \in vowels : TRUE
                      ELSE IF prior # {} THEN CHOOSE i \in prior : \A j \in prior : i <= j
                      ELSE second
            last == CHOOSE i \in marked : \A j \in marked : j <= i
        IN  /\ Len(typed) = Len(given_word)
            /\ \A i \in 1..Len(given_word) : BaseOf(typed[i]) = BaseOf(given_word[i])
            /\ Cardinality(MarkedOf(typed)) <= 1
            /\ IF marked = {} THEN MarkedOf(typed) = {}
               ELSE /\ MarkedOf(typed) = {target}
                    /\ ToneOf(typed[target]) = ToneOf(given_word[last])

\* C25 witness: a word of three vowels with two different marks and a vowel of
\* the row of o-horn in the third place, on which the last mark ends.
C25_Witness ==
    /\ typing = "done"
    /\ Cardinality(VowelsOf(given_word)) = 3
    /\ {ToneOf(given_word[i]) : i \in MarkedOf(given_word)} = {1, 2}
    /\ vowels_to_ids[given_word[Len(given_word)]][1] = 8
    /\ MarkedOf(typed) = {Len(given_word)}
    /\ typed # given_word

----------------------------------------------------------------------------
(* Claims about the similarity score *)

\* the law numbers of the running call that update_laws has compared
Compared(w) == {k \in DOMAIN decision[w] : decision[w][k] \in {"Update", "Skip"}}

\* C26: the similarity score is well defined and bounded. For every law number
\* update_laws has compared, the stored text and the new text have a greatest
\* length of 1 or more, the score num/den has 0 <= num <= den, and it is 1
\* exactly when the two texts are equal.
C26_SimilarityBounded ==
    \A w \in Workers : \A k \in Compared(w) :
        LET old == existing_laws[w][k]
            new == new_laws[w][k]
            sim == get_similarity(old, new)
        IN  /\ Max(Len(Chars[old]), Len(Chars[new])) >= 1
            /\ sim[2] >= 1
            /\ 0 <= sim[1]
            /\ sim[1] <= sim[2]
            /\ (sim[1] = sim[2]) <=> (Chars[old] = Chars[new])

\* C26 witness: one call has compared a law number whose new text is the stored
\* text (score 1) and a law number whose new text shares nothing with the stored
\* text (score 0).
C26_Witness ==
    \E w \in Workers : \E k, l \in Compared(w) :
        /\ new_laws[w][k] = existing_laws[w][k]
        /\ get_similarity(existing_laws[w][k], new_laws[w][k])[1] = 20
        /\ get_similarity(existing_laws[w][l], new_laws[w][l])[1] = 0

----------------------------------------------------------------------------
(* Claims about WeaviateClient.insert_objects *)

\* C27: doc_id is a unique identifier. No two objects inserted by the calls of
\* insert_objects on one client have the same doc_id, and no call takes the
\* place of an object an earlier call wrote.
C27_DocIdUnique ==
    \A i, j \in 1..Len(batches) :
        i < j => /\ Range(batches[i].doc_ids) \cap Range(batches[j].doc_ids) = {}
                 /\ batches[j].replaced = {}

----------------------------------------------------------------------------
(* Claims about the class Weaviate *)

\* the constructions made, and those that ran the body of __init__ to its end
Constructions == {i \in 1..Len(history) : history[i].op = "Weaviate"}
Initializations == {i \in Constructions : history[i].out = "initialized"}

\* C28: singleton store client. All the constructions made give the same
\* object, the body of __init__ runs to its end at most once, and a
\* construction made after it has done so leaves the client, the index name
\* and the configuration of the instance as they were, whatever its config.
C28_Singleton ==
    /\ \A i, j \in Constructions : history[i].id = history[j].id
    /\ Cardinality(Initializations) <= 1
    /\ \A i \in Constructions :
           (\E j \in Initializations : j < i) =>
               /\ history[i].out = "returned"
               /\ history[i].after.client = history[i].before.client
               /\ history[i].after.index_name = history[i].before.index_name
               /\ history[i].after.config = history[i].before.config

\* C28 witness: after a construction has initialized the instance, a
\* construction with another config returned at the guard and left the
\* configuration of the instance as it was.
C28_Witness ==
    \E i, j \in Constructions :
        /\ i < j
        /\ history[i].out = "initialized"
        /\ history[j].config # history[i].config
        /\ history[j].out = "returned"
        /\ instance.config = history[i].config

\* C29: get_instance gives the instance exactly when an earlier construction
\* ran the body of __init__ to its end, and raises RuntimeError otherwise,
\* before any construction as well as after one that raised; a construction
\* made when none has done so runs the body of __init__ again.
C29_GetInstance ==
    /\ \A i \in 1..Len(history) :
           history[i].op = "get_instance" =>
               (history[i].out = "instance" <=> \E j \in Initializations : j < i)
    /\ get_instance(instance) = "instance" <=> Initializations # {}
    /\ \A i \in Constructions :
           (\A j \in Initializations : j >= i) =>
               /\ history[i].out \in {"initialized", "raised"}
               /\ history[i].after.config = history[i].config

\* C29 witness: a construction raised, get_instance raised RuntimeError after
\* it, and the next construction initialized the object the first had made.
C29_Witness ==
    /\ Len(history) = 3
    /\ history[1].op = "Weaviate" /\ history[1].out = "raised"
    /\ history[2].op = "get_instance" /\ history[2].out = "RuntimeError"
    /\ history[3].op = "Weaviate" /\ history[3].out = "initialized"
    /\ history[3].id = history[1].id
    /\ get_instance(instance) = "instance"

----------------------------------------------------------------------------
(* Claims about the objects of a law number *)

\* C30: at most one stored object per law_number. From an empty store, when
\* the calls of update_laws made one after the other on one WorkerUpdate have
\* all returned, the store holds at most one object under every law number.
C30_OnePerLawNumber ==
    \A w \in Workers :
        (pc[w] = "returned" /\ raises[w] = 0) =>
            \A k \in LawNumbers : Cardinality(ObjectsUnder(objects, k)) <= 1

----------------------------------------------------------------------------
(* Claims about successive calls of update_laws *)

\* the running call of w was given the new_laws of the call before it, which
\* returned, and has read the store
Resubmitted(w) == resubmitted[w] /\ pc[w] \notin {"idle", "get_existing"}

\* C31: re-submission is a no-op. A call of update_laws given the new_laws of
\* the call before it on the same WorkerUpdate, which returned, with no other
\* writer in between, decides Skip for every key it reaches, issues no deletion
\* and no insertion, and does not raise.
C31_ResubmissionNoOp ==
    \A w \in Workers :
        Resubmitted(w) =>
            /\ pc[w] # "raised"
            /\ log[w] = <<>>
            /\ \A k \in DOMAIN decision[w] : decision[w][k] = "Skip"

\* C32: every key deleted or re-inserted belongs to the batch. When a call
\* starts its application phase, self.low_similarity_laws holds only keys of
\* the call's new_laws, each at most once.
C32_MarkedKeysOfBatch ==
    \A w \in Workers :
        (pc[w] = "delete" /\ idx[w] = 1) =>
            /\ \A i \in 1..Len(low_similarity_laws[w]) :
                   low_similarity_laws[w][i] \in DOMAIN new_laws[w]
            /\ \A i, j \in 1..Len(low_similarity_laws[w]) :
                   low_similarity_laws[w][i] = low_similarity_laws[w][j] => i = j

----------------------------------------------------------------------------
(* Claims about the docids of Weaviate.append *)

\* the step of w that is taken has made a call, recorded last in its log
Called(w) == Len(log'[w]) = Len(log[w]) + 1

\* C33: store identifiers assigned by Weaviate.append, the calls made one
\* after the other. A step whose batch.add_data_object went through leaves
\* config["offset"] greater by exactly one, and the object it stored has the
\* offset before the step as docid, greater than the docid of every object
\* stored before; a step whose add raised, and every other step, leaves the
\* offset as it was. So the docids of the stored objects are pairwise distinct
\* and less than the offset.
C33_DocidsIncrease ==
    /\ [](\A o \in objects :
             /\ o.docid < offset
             /\ \A other \in objects : other.docid = o.docid => other = o)
    /\ [][LET added == {w \in Workers :
                            /\ Called(w)
                            /\ Last(log'[w]).op = "insert"
                            /\ Last(log'[w]).out \in {"ok", "flush_error"}}
           IN  IF added # {}
               THEN /\ offset' = offset + 1
                    /\ \A w \in added :
                          Last(log'[w]).out = "ok" =>
                              /\ Last(log'[w]).docid = offset
                              /\ \E o \in objects' \ objects : o.docid = offset
                              /\ \A o \in objects : o.docid < offset
               ELSE offset' = offset]_vars

\* C33 witness: in one call an add raised and a later add went through, after
\* the add of an earlier call: the object it stored has the docid 1.
C33_Witness ==
    \E w \in Workers : \E i, j \in 1..Len(log[w]) :
        /\ i < j
        /\ log[w][i].out = "add_error"
        /\ log[w][j].out = "ok" /\ log[w][j].docid = 1
        /\ \E o \in objects : o.docid = 1 /\ o.law_number = log[w][j].law_number
        /\ offset = 2

----------------------------------------------------------------------------
(* Claims about the chat stream *)

\* C34: the chat stream terminates. Once the LLM run of the agent has ended,
\* create_gen finishes in the end, whether or not the output held the text
\* Final Answer.
C34_StreamTerminates == (agent = "ended") ~> (gen = "finished")

\* the places of output after which marker has been read whole
EndsOf(text, marker) ==
    {i \in Len(marker)..Len(text) : SubSeq(text, i - Len(marker) + 1, i) = marker}

\* C35: only final-answer tokens are streamed. A token is put in the queue
\* only when the output of the running LLM call holds the text Final Answer
\* and, after it, the text "action_input": "; a token that is the double quote
\* or the closing brace is never put; and on_llm_end leaves the content empty
\* and final_answer false.
C35_OnlyFinalAnswerTokens ==
    [][/\ Len(queue') > Len(queue) =>
             /\ \E token \in Tokens \ {<<"q">>, <<"b">>} :
                   /\ queue' = Append(queue, token)
                   /\ output' = output \o token
             /\ \E i \in EndsOf(output', FinalAnswer) :
                \E j \in EndsOf(output', ActionInput) : i + Len(ActionInput) <= j
       /\ llm_calls' # llm_calls => (self_content' = <<>> /\ final_answer' = FALSE)]_vars

\* C35 witness: the first LLM call ended without the text Final Answer, and
\* the second has had a token put in the queue.
C35_Witness ==
    /\ llm_calls = 1
    /\ ~done
    /\ final_answer
    /\ queue # <<>>

----------------------------------------------------------------------------
(* Claims about the websocket connection managers *)

\* the websockets a manager holds
Registered ==
    {active_connections[k] : k \in DOMAIN active_connections}
        \cup {hub_connections[i] : i \in 1..Len(hub_connections)}

\* C36: disconnected sessions are forgotten. In both connection managers a
\* websocket whose endpoint handler has ended is no longer held by the
\* manager, and no websocket is sent on after it was closed.
C36_DisconnectedForgotten ==
    /\ \A websocket \in 1..Len(sockets) :
          sockets[websocket].handler = "ended" => websocket \notin Registered
    /\ closed_sends = {}

\* C37: a session timeout closes only its own connection. A websocket closed
\* by a timeout task is the one the task was started for, and a session has at
\* most one timeout task pending.
C37_TimeoutOwnConnection ==
    /\ \A websocket \in 1..Len(sockets) :
          sockets[websocket].closed_by \in {0, websocket}
    /\ \A session_id \in Sessions :
          Cardinality({own \in pending : sockets[own].session = session_id}) <= 1

----------------------------------------------------------------------------
(* Claims about OpenAIGenerator.generate *)

\* an attempt that succeeded: a response whose choices all parse
Succeeded(outcome) == outcome.kind = "response" /\ ~ParseRaises(outcome)

\* C38: the retry loop of generate. Without wait_till_success the API is
\* called once, and the call returns the parsed choices or raises. With
\* wait_till_success a call is made again only after an OpenAIError; generate
\* returns the parsed choices of the first attempt that succeeds, and an
\* exception that is not an OpenAIError ends it at once with a RuntimeError.
C38_RetryLoop ==
    LET n == Len(api_calls)
    IN  /\ ~wait_till_success => n <= 1 /\ (n = 1 => generated.state # "running")
        /\ \A i \in 1..(n - 1) : wait_till_success /\ api_calls[i].kind = "OpenAIError"
        /\ n > 0 /\ Succeeded(api_calls[n])
              => generated.state = "returned" /\ generated.value = parse_response(api_calls[n])
        /\ n > 0 /\ api_calls[n].kind = "OpenAIError"
              => IF wait_till_success THEN generated.state = "running"
                 ELSE generated.state = "raised" /\ generated.error = "OpenAIError"
        /\ n > 0 /\ ~Succeeded(api_calls[n]) /\ api_calls[n].kind # "OpenAIError"
              => generated.state = "raised" /\ generated.error = "RuntimeError"
        /\ generated.state = "returned" => n > 0 /\ Succeeded(api_calls[n])

\* with wait_till_success, generate returned choices on its third call
C38_Witness ==
    /\ wait_till_success
    /\ Len(api_calls) = 3
    /\ generated.state = "returned"
    /\ generated.value = <<"a", "b">>

====
